---- MODULE Spec2Model ----
(***************************************************************************)
(* Model of gmaps_scraper_server/scraper.py: scrape_google_maps (browser   *)
(* launch, consent, results feed, scroll loop, link collection), the pool  *)
(* process_places_parallel with its semaphore-bounded workers, and the     *)
(* navigation part of extract_place_details.                               *)
(*                                                                         *)
(* Every await of the code is one step.  A Playwright call either returns  *)
(* or raises; which of the two is the environment's choice.                *)
(***************************************************************************)
EXTENDS Integers, Sequences, FiniteSets

\* ------------------------------------------------------------ bounds
NumUrls == 2          \* distinct detail-page URLs the results page can expose
MaxAnchors == 3       \* anchors the results page shows at most
MaxPlacesReq == 2     \* largest max_places requested
MaxWorkers == 2       \* largest max_workers given to the pool on its own

\* ------------------------------------------------- program constants
MaxScrollAttempts == 20   \* scraper.py:317  scroll_attempts < 20
PipelineWorkers == 3      \* scraper.py:345  max_workers=3
NumConsentSelectors == 2  \* scraper.py:289-292
\* The stagnation limit K of the design (no such counter exists in the code;
\* no_growth_run below only observes the page).
StagnationLimit == 5

Urls == 1..NumUrls

VARIABLES
    pc,              \* position of scrape_google_maps
    exc_at,          \* the position at which an exception was raised, or "none"
    max_places,      \* argument max_places
    max_workers,     \* argument max_workers of process_places_parallel
    browser,         \* "none" (not launched), "open", "closed"
    browser_closes,  \* calls of browser.close() so far
    consent_idx,     \* index of the consent selector tried next (0-based)
    consent_clicks,  \* consent buttons clicked
    anchors,         \* the page: hrefs of a[href*="/maps/place/"], in document order
    places_loaded,   \* local places_loaded
    scroll_attempts, \* local scroll_attempts
    no_growth_run,   \* observer: consecutive scrolls that changed neither links nor extent
    place_links,     \* local place_links (hrefs of the handles of the final query)
    place_urls,      \* local place_urls
    semaphore,       \* free slots of asyncio.Semaphore(max_workers)
    wpc,             \* position of each worker task
    pending,         \* value extract_place_details returned to the worker
    wresult,         \* each task's result as gather sees it
    navigated,       \* workers whose page.goto(place_url) returned
    open_pages,      \* workers holding a page that new_page returned and close has not ended
    gathered,        \* results of asyncio.gather (line 230)
    results,         \* value returned by scrape_google_maps
    html_content,    \* extractor.py: the markup given to extract_place_data
    place_details,   \* extractor.py: what extract_place_data returned (or that it raised)
    detail_page,     \* scraper.py: the detail page and arguments of one extract_place_details call
    place_data,      \* scraper.py: what that extract_place_details call returned
    request,         \* main_api.py: the body of one POST /scrape and the handler's position
    response         \* main_api.py: the handler's response

vars == <<pc, exc_at, max_places, max_workers, browser, browser_closes,
          consent_idx, consent_clicks, anchors, places_loaded, scroll_attempts,
          no_growth_run, place_links, place_urls, semaphore, wpc, pending,
          wresult, navigated, open_pages, gathered, results,
          html_content, place_details, detail_page, place_data, request, response>>

\* State of the other entry points, idle during a run of scrape_google_maps
extVars == <<html_content, place_details, detail_page, place_data, request, response>>

\* The value of a variable whose entry point is not in use
Idle == "idle"

ExtIdle ==
    /\ html_content = Idle
    /\ place_details = Idle
    /\ detail_page = Idle
    /\ place_data = Idle
    /\ request = Idle
    /\ response = Idle

mainVars == <<pc, exc_at, browser, browser_closes>>
consentVars == <<consent_idx, consent_clicks>>
scrollVars == <<anchors, places_loaded, scroll_attempts, no_growth_run>>
linkVars == <<place_links, place_urls>>
poolVars == <<semaphore, wpc, pending, wresult, navigated, open_pages, gathered>>

\* ------------------------------------------------------------ helpers
Min(a, b) == IF a < b THEN a ELSE b

\* Python's s[:n] for n >= 0
Take(s, n) == SubSeq(s, 1, Min(n, Len(s)))

Range(s) == {s[i] : i \in DOMAIN s}

\* All sequences over S of length at most n
SeqsUpTo(S, n) == UNION {[1..k -> S] : k \in 0..n}

\* Values a task can resolve to
NoneVal == [kind |-> "None", url |-> 0]
ExcVal == [kind |-> "Exception", url |-> 0]
Unset == [kind |-> "unset", url |-> 0]

\* place_data of extract_place_details (lines 27-30): keyed by the URL it was given
PlaceData(u) == [kind |-> "record", url |-> u]

\* ------------------------------------------------------------ initial states
\* scrape_google_maps(query, max_places, ...) has just been called (line 241).
\* max_places >= 1: both endpoints of main_api.py reject smaller values.
Init ==
    /\ pc = "launch"
    /\ exc_at = "none"
    /\ max_places \in 1..MaxPlacesReq
    /\ max_workers = PipelineWorkers
    /\ browser = "none"
    /\ browser_closes = 0
    /\ consent_idx = 0
    /\ consent_clicks = 0
    /\ anchors = << >>
    /\ places_loaded = 0
    /\ scroll_attempts = 0
    /\ no_growth_run = 0
    /\ place_links = << >>
    /\ place_urls = << >>
    /\ semaphore = 0
    /\ wpc = << >>
    /\ pending = << >>
    /\ wresult = << >>
    /\ navigated = {}
    /\ open_pages = {}
    /\ gathered = << >>
    /\ results = << >>
    /\ ExtIdle

\* ------------------------------------------------------------ scrape_google_maps
\* line 246: browser = await p.chromium.launch(...)
Launch ==
    /\ pc = "launch"
    /\ browser' = "open"
    /\ pc' = "setup"
    /\ UNCHANGED <<exc_at, browser_closes, max_places, max_workers, extVars>>
    /\ UNCHANGED <<consentVars, scrollVars, linkVars, poolVars, results>>

\* lines 263-285: new_context, add_init_script, new_page, goto(search_url), sleep
Setup ==
    /\ pc = "setup"
    /\ pc' = "consent"
    /\ UNCHANGED <<exc_at, browser, browser_closes, max_places, max_workers, extVars>>
    /\ UNCHANGED <<consentVars, scrollVars, linkVars, poolVars, results>>

\* lines 294-303: wait_for_selector(selector, timeout=3000) raised PlaywrightTimeout:
\* continue with the next selector, or leave the loop after the last one
ConsentTimeout ==
    /\ pc = "consent"
    /\ consent_idx < NumConsentSelectors
    /\ consent_idx' = consent_idx + 1
    /\ pc' = IF consent_idx + 1 = NumConsentSelectors THEN "feed" ELSE "consent"
    /\ UNCHANGED <<exc_at, browser, browser_closes, max_places, max_workers, extVars>>
    /\ UNCHANGED <<consent_clicks, scrollVars, linkVars, poolVars, results>>

\* lines 296-301: the button appeared, click() returned, break
ConsentClick ==
    /\ pc = "consent"
    /\ consent_idx < NumConsentSelectors
    /\ consent_clicks' = consent_clicks + 1
    /\ pc' = "feed"
    /\ UNCHANGED <<exc_at, browser, browser_closes, max_places, max_workers, extVars>>
    /\ UNCHANGED <<consent_idx, scrollVars, linkVars, poolVars, results>>

\* lines 307-315: wait_for_selector('div[role="feed"]', state='visible') returned the
\* feed; the page shows some anchors; places_loaded = 0, scroll_attempts = 0
FeedVisible ==
    /\ pc = "feed"
    /\ anchors' \in SeqsUpTo(Urls, MaxAnchors)
    /\ places_loaded' = 0
    /\ scroll_attempts' = 0
    /\ no_growth_run' = 0
    /\ pc' = "loop"
    /\ UNCHANGED <<exc_at, browser, browser_closes, max_places, max_workers, extVars>>
    /\ UNCHANGED <<consentVars, linkVars, poolVars, results>>

\* LoopCond with the ceiling off by one
LoopCondOffByOne == places_loaded < max_places /\ scroll_attempts <= MaxScrollAttempts

\* line 317: the while condition
LoopCond == places_loaded < max_places /\ scroll_attempts < MaxScrollAttempts

\* lines 318-323: query the anchors, count them, break when enough are loaded
QueryPlaces ==
    /\ pc = "loop"
    /\ LoopCond
    /\ places_loaded' = Len(anchors)
    /\ pc' = IF Len(anchors) >= max_places THEN "collect" ELSE "scroll"
    /\ UNCHANGED <<exc_at, browser, browser_closes, max_places, max_workers, extVars>>
    /\ UNCHANGED <<anchors, scroll_attempts, no_growth_run>>
    /\ UNCHANGED <<consentVars, linkVars, poolVars, results>>

\* line 317: the while condition is false
LoopExit ==
    /\ pc = "loop"
    /\ ~LoopCond
    /\ pc' = "collect"
    /\ UNCHANGED <<exc_at, browser, browser_closes, max_places, max_workers, extVars>>
    /\ UNCHANGED <<consentVars, scrollVars, linkVars, poolVars, results>>

\* What the feed can show after a scroll to its bottom: the same anchors, or one more
PageAfterScroll(a) ==
    {a} \cup (IF Len(a) < MaxAnchors THEN {Append(a, u) : u \in Urls} ELSE {})

\* lines 325-327: feed_element.evaluate(scrollTop = scrollHeight), sleep, count it.
\* The page answers as it likes: new anchors or not, scroll extent changed or not.
Scroll ==
    /\ pc = "scroll"
    /\ \E shown \in PageAfterScroll(anchors), extent_changed \in BOOLEAN :
          /\ anchors' = shown
          /\ no_growth_run' =
                IF Range(shown) \subseteq Range(anchors) /\ ~extent_changed
                THEN Min(no_growth_run + 1, StagnationLimit)
                ELSE 0
    /\ scroll_attempts' = scroll_attempts + 1
    /\ pc' = "loop"
    /\ UNCHANGED <<exc_at, browser, browser_closes, max_places, max_workers, extVars>>
    /\ UNCHANGED <<places_loaded, consentVars, linkVars, poolVars, results>>

\* The selector a[href*="/maps/place/"] matches only anchors that have an href
NoHref == 0

\* CollectUrls without the slice [:max_places]
CollectUrlsNoCap(links, n) == SelectSeq(links, LAMBDA u : u # NoHref)

\* lines 331-335: place_urls from place_links[:max_places], skipping empty hrefs
CollectUrls(links, n) == SelectSeq(Take(links, n), LAMBDA u : u # NoHref)

\* lines 330-335: the final query and the hrefs of its handles.  The loop's locals
\* are not read after this point and are dropped.
Collect ==
    /\ pc = "collect"
    /\ place_links' = anchors
    /\ place_urls' = CollectUrls(anchors, max_places)
    /\ places_loaded' = 0
    /\ scroll_attempts' = 0
    /\ no_growth_run' = 0
    /\ pc' = "pool_call"
    /\ UNCHANGED <<exc_at, browser, browser_closes, max_places, max_workers, extVars>>
    /\ UNCHANGED <<anchors, consentVars, poolVars, results>>

\* line 348: await page.close()
ClosePage ==
    /\ pc = "close_page"
    /\ pc' = "close_browser"
    /\ UNCHANGED <<exc_at, browser, browser_closes, max_places, max_workers, extVars>>
    /\ UNCHANGED <<consentVars, scrollVars, linkVars, poolVars, results>>

\* line 349 and 357-358: await browser.close(), then return results
CloseBrowser ==
    /\ pc = "close_browser"
    /\ browser' = "closed"
    /\ browser_closes' = browser_closes + 1
    /\ pc' = "done"
    /\ UNCHANGED <<exc_at, max_places, max_workers, extVars>>
    /\ UNCHANGED <<consentVars, scrollVars, linkVars, poolVars, results>>

\* The awaits of lines 246-348 inside the try block, other than the pool's
RaisingPcs == {"launch", "setup", "consent", "feed", "loop", "scroll", "collect",
               "close_page"}

\* An awaited Playwright call raises (a timeout of goto or of the wait for the feed,
\* a failed click, a lost connection): control goes to the except clause of line 351
Raise ==
    /\ pc \in RaisingPcs
    /\ exc_at' = pc
    /\ pc' = "except"
    /\ UNCHANGED <<browser, browser_closes, max_places, max_workers, extVars>>
    /\ UNCHANGED <<consentVars, scrollVars, linkVars, poolVars, results>>

\* line 349: browser.close() itself raises
CloseBrowserRaises ==
    /\ pc = "close_browser"
    /\ browser_closes' = browser_closes + 1
    /\ exc_at' = pc
    /\ pc' = "except"
    /\ UNCHANGED <<browser, max_places, max_workers, extVars>>
    /\ UNCHANGED <<consentVars, scrollVars, linkVars, poolVars, results>>

\* lines 351-355: log, close the browser if it was launched, re-raise
Handler ==
    /\ pc = "except"
    /\ IF browser # "none"
       THEN browser' = "closed" /\ browser_closes' = browser_closes + 1
       ELSE UNCHANGED <<browser, browser_closes>>
    /\ pc' = "raised"
    /\ UNCHANGED <<exc_at, max_places, max_workers, extVars>>
    /\ UNCHANGED <<consentVars, scrollVars, linkVars, poolVars, results>>

\* line 354: the browser.close() of the except clause itself raises; that exception
\* leaves scrape_google_maps in place of the one being handled
HandlerCloseRaises ==
    /\ pc = "except"
    /\ browser # "none"
    /\ browser_closes' = browser_closes + 1
    /\ pc' = "raised"
    /\ UNCHANGED <<exc_at, browser, max_places, max_workers, extVars>>
    /\ UNCHANGED <<consentVars, scrollVars, linkVars, poolVars, results>>

\* ------------------------------------------------------------ process_places_parallel
\* Tasks without the slice [:max_places]
TasksAll == place_urls

\* line 229: one task per URL of place_urls[:max_places]
Tasks == Take(place_urls, max_places)

Workers == DOMAIN wpc

\* lines 217-230: create the semaphore and the tasks; gather schedules them
PoolStart ==
    /\ pc = "pool_call"
    /\ semaphore' = max_workers
    /\ wpc' = [w \in 1..Len(Tasks) |-> "start"]
    /\ pending' = [w \in 1..Len(Tasks) |-> Unset]
    /\ wresult' = [w \in 1..Len(Tasks) |-> Unset]
    /\ navigated' = {}
    /\ open_pages' = {}
    /\ gathered' = << >>
    /\ pc' = "pool"
    /\ UNCHANGED <<exc_at, browser, browser_closes, max_places, max_workers, extVars>>
    /\ UNCHANGED <<consentVars, scrollVars, linkVars, results>>

\* CanAcquire of a worker that does not wait for a slot
CanAcquireAlways == TRUE

\* asyncio.Semaphore.acquire proceeds only while a slot is free
CanAcquire == semaphore > 0

\* line 221: async with semaphore (entry), then line 222 issues context.new_page()
Acquire(w) ==
    /\ pc = "pool"
    /\ wpc[w] = "start"
    /\ CanAcquire
    /\ semaphore' = semaphore - 1
    /\ wpc' = [wpc EXCEPT ![w] = "new_page"]
    /\ UNCHANGED <<mainVars, max_places, max_workers, extVars, consentVars, scrollVars, linkVars>>
    /\ UNCHANGED <<pending, wresult, navigated, open_pages, gathered, results>>

\* line 222 returned a page; line 224 calls extract_place_details, which builds
\* place_data and issues page.goto(place_url) (lines 17-34)
NewPageOk(w) ==
    /\ pc = "pool"
    /\ wpc[w] = "new_page"
    /\ open_pages' = open_pages \cup {w}
    /\ wpc' = [wpc EXCEPT ![w] = "goto"]
    /\ UNCHANGED <<mainVars, max_places, max_workers, extVars, consentVars, scrollVars, linkVars>>
    /\ UNCHANGED <<semaphore, pending, wresult, navigated, gathered, results>>

\* line 222 raised: no page, no try block entered; async with releases the slot and
\* the task ends with the exception
NewPageRaises(w) ==
    /\ pc = "pool"
    /\ wpc[w] = "new_page"
    /\ semaphore' = semaphore + 1
    /\ wresult' = [wresult EXCEPT ![w] = ExcVal]
    /\ wpc' = [wpc EXCEPT ![w] = "done"]
    /\ UNCHANGED <<mainVars, max_places, max_workers, extVars, consentVars, scrollVars, linkVars>>
    /\ UNCHANGED <<pending, navigated, open_pages, gathered, results>>

\* lines 34-206: goto returned; every later query sits in its own try/except, so
\* extract_place_details returns place_data; the worker's finally issues page.close()
GotoOk(w) ==
    /\ pc = "pool"
    /\ wpc[w] = "goto"
    /\ navigated' = navigated \cup {w}
    /\ pending' = [pending EXCEPT ![w] = PlaceData(Tasks[w])]
    /\ wpc' = [wpc EXCEPT ![w] = "close"]
    /\ UNCHANGED <<mainVars, max_places, max_workers, extVars, consentVars, scrollVars, linkVars>>
    /\ UNCHANGED <<semaphore, wresult, open_pages, gathered, results>>

\* ExtractFailed returning the place_data built before the navigation
ExtractFailedKeepsData(w) == PlaceData(Tasks[w])

\* lines 208-210: goto raised (timeout or any other error): return None
ExtractFailed(w) == NoneVal

GotoRaises(w) ==
    /\ pc = "pool"
    /\ wpc[w] = "goto"
    /\ pending' = [pending EXCEPT ![w] = ExtractFailed(w)]
    /\ wpc' = [wpc EXCEPT ![w] = "close"]
    /\ UNCHANGED <<mainVars, max_places, max_workers, extVars, consentVars, scrollVars, linkVars>>
    /\ UNCHANGED <<semaphore, wresult, navigated, open_pages, gathered, results>>

\* PagesAfterClose of a worker that closes the page only after a record was built
PagesAfterCloseLeak(w) == IF pending[w] = NoneVal THEN open_pages ELSE open_pages \ {w}

\* lines 226-227: the finally clause closes the page whatever extraction returned
PagesAfterClose(w) == open_pages \ {w}

\* line 221: leaving async with releases the slot
SlotsAfterExit == semaphore + 1

\* lines 225-227 and 221: page.close() returned; the slot is released and the task
\* resolves to what extract_place_details returned
CloseOk(w) ==
    /\ pc = "pool"
    /\ wpc[w] = "close"
    /\ open_pages' = PagesAfterClose(w)
    /\ semaphore' = SlotsAfterExit
    /\ wresult' = [wresult EXCEPT ![w] = pending[w]]
    /\ wpc' = [wpc EXCEPT ![w] = "done"]
    /\ UNCHANGED <<mainVars, max_places, max_workers, extVars, consentVars, scrollVars, linkVars>>
    /\ UNCHANGED <<pending, navigated, gathered, results>>

\* line 227 raised: Playwright raises from close() when the page is already gone
\* (crashed, or its connection lost), so the program holds no page afterwards; the
\* exception replaces the return value of line 225 and the slot is released
CloseRaises(w) ==
    /\ pc = "pool"
    /\ wpc[w] = "close"
    /\ open_pages' = PagesAfterClose(w)
    /\ semaphore' = SlotsAfterExit
    /\ wresult' = [wresult EXCEPT ![w] = ExcVal]
    /\ wpc' = [wpc EXCEPT ![w] = "done"]
    /\ UNCHANGED <<mainVars, max_places, max_workers, extVars, consentVars, scrollVars, linkVars>>
    /\ UNCHANGED <<pending, navigated, gathered, results>>

\* GatherDone of a fail-fast gather (return_exceptions=False): the first exception ends it
GatherFailFast ==
    \/ \A w \in DOMAIN wpc : wpc[w] = "done"
    \/ \E w \in DOMAIN wpc : wresult[w] = ExcVal

\* line 230: gather(*tasks, return_exceptions=True) returns once every task is done
GatherDone == \A w \in Workers : wpc[w] = "done"

\* line 232: keep what is neither None nor an exception
IsValid(r) == r # NoneVal /\ r # ExcVal

ValidResults(rs) == SelectSeq(rs, IsValid)

\* lines 230-234 and 340: gather returns, the pool returns valid_results, which
\* scrape_google_maps binds to results
PoolReturn ==
    /\ pc = "pool"
    /\ GatherDone
    /\ gathered' = wresult
    /\ results' = ValidResults(wresult)
    /\ pc' = "close_page"
    /\ UNCHANGED <<exc_at, browser, browser_closes, max_places, max_workers, extVars>>
    /\ UNCHANGED <<consentVars, scrollVars, linkVars>>
    /\ UNCHANGED <<semaphore, wpc, pending, wresult, navigated, open_pages>>

Worker(w) ==
    \/ Acquire(w)
    \/ NewPageOk(w)
    \/ NewPageRaises(w)
    \/ GotoOk(w)
    \/ GotoRaises(w)
    \/ CloseOk(w)
    \/ CloseRaises(w)

PoolNext ==
    \/ PoolStart
    \/ \E w \in Workers : Worker(w)
    \/ PoolReturn

\* ------------------------------------------------------------ specifications
Next ==
    \/ Launch
    \/ Setup
    \/ ConsentTimeout
    \/ ConsentClick
    \/ FeedVisible
    \/ QueryPlaces
    \/ LoopExit
    \/ Scroll
    \/ Collect
    \/ PoolNext
    \/ ClosePage
    \/ CloseBrowser
    \/ CloseBrowserRaises
    \/ Raise
    \/ Handler
    \/ HandlerCloseRaises

\* One run of scrape_google_maps
Spec == Init /\ [][Next]_vars

\* process_places_parallel on its own: any list of URLs, any cap, any limit >= 1
InitPool ==
    /\ pc = "pool_call"
    /\ exc_at = "none"
    /\ max_places \in 1..MaxPlacesReq + 1
    /\ max_workers \in 1..MaxWorkers
    /\ browser = "open"
    /\ browser_closes = 0
    /\ consent_idx = 0
    /\ consent_clicks = 0
    /\ anchors = << >>
    /\ places_loaded = 0
    /\ scroll_attempts = 0
    /\ no_growth_run = 0
    /\ place_links = << >>
    /\ place_urls \in SeqsUpTo(Urls, MaxAnchors)
    /\ semaphore = 0
    /\ wpc = << >>
    /\ pending = << >>
    /\ wresult = << >>
    /\ navigated = {}
    /\ open_pages = {}
    /\ gathered = << >>
    /\ results = << >>
    /\ ExtIdle

SpecPool == InitPool /\ [][PoolNext]_vars

\* A function of the other modules called on its own: the pipeline is not running
EntryPoint(name) ==
    /\ pc = name
    /\ exc_at = "none"
    /\ max_places = 1
    /\ max_workers = PipelineWorkers
    /\ browser = "none"
    /\ browser_closes = 0
    /\ consent_idx = 0
    /\ consent_clicks = 0
    /\ anchors = << >>
    /\ places_loaded = 0
    /\ scroll_attempts = 0
    /\ no_growth_run = 0
    /\ place_links = << >>
    /\ place_urls = << >>
    /\ semaphore = 0
    /\ wpc = << >>
    /\ pending = << >>
    /\ wresult = << >>
    /\ navigated = {}
    /\ open_pages = {}
    /\ gathered = << >>
    /\ results = << >>

\* ============================================================ strings
\* A string is a sequence of characters; the few multi-character tokens used
\* ("/maps/place/", "/data=", "%20", "&amp;") stand for exactly those substrings.
DigitChars == {"0", "1", "2", "3", "4", "5", "6", "7", "8", "9"}

\* str.isdigit / the regex class \d
IsDigit(c) == c \in DigitChars

DigitVal(c) ==
    CASE c = "0" -> 0 [] c = "1" -> 1 [] c = "2" -> 2 [] c = "3" -> 3 [] c = "4" -> 4
      [] c = "5" -> 5 [] c = "6" -> 6 [] c = "7" -> 7 [] c = "8" -> 8 [] c = "9" -> 9

\* A string of n copies of c
Rep(c, n) == [i \in 1..n |-> c]

\* str.lower, one character
LowerChar(c) ==
    CASE c = "A" -> "a" [] c = "B" -> "b" [] c = "C" -> "c" [] c = "D" -> "d"
      [] c = "E" -> "e" [] c = "F" -> "f" [] c = "G" -> "g" [] c = "H" -> "h"
      [] c = "I" -> "i" [] c = "J" -> "j" [] c = "K" -> "k" [] c = "L" -> "l"
      [] c = "M" -> "m" [] c = "N" -> "n" [] c = "O" -> "o" [] c = "P" -> "p"
      [] c = "Q" -> "q" [] c = "R" -> "r" [] c = "S" -> "s" [] c = "T" -> "t"
      [] c = "U" -> "u" [] c = "V" -> "v" [] c = "W" -> "w" [] c = "X" -> "x"
      [] c = "Y" -> "y" [] c = "Z" -> "z"
      [] OTHER -> c

Lower(s) == [i \in DOMAIN s |-> LowerChar(s[i])]

\* sub in s
Contains(s, sub) ==
    \E i \in 0..(Len(s) - Len(sub)) : SubSeq(s, i + 1, i + Len(sub)) = sub

\* ''.join(filter(pred, s)) / re.sub of the complement class by ''
RECURSIVE Keep(_, _)
Keep(s, chars) ==
    IF s = << >> THEN << >>
    ELSE IF Head(s) \in chars THEN <<Head(s)>> \o Keep(Tail(s), chars)
    ELSE Keep(Tail(s), chars)

RECURSIVE LStrip(_)
LStrip(s) == IF s # << >> /\ Head(s) = " " THEN LStrip(Tail(s)) ELSE s

RECURSIVE RStrip(_)
RStrip(s) ==
    IF s # << >> /\ s[Len(s)] = " " THEN RStrip(SubSeq(s, 1, Len(s) - 1)) ELSE s

\* str.strip()
Strip(s) == RStrip(LStrip(s))

\* Index of the first occurrence of character c in s, or 0
RECURSIVE IndexFrom(_, _, _)
IndexFrom(s, c, i) ==
    IF i > Len(s) THEN 0 ELSE IF s[i] = c THEN i ELSE IndexFrom(s, c, i + 1)

IndexOf(s, c) == IndexFrom(s, c, 1)

\* s.split(c), for a one-token separator c
RECURSIVE Split(_, _)
Split(s, c) ==
    IF IndexOf(s, c) = 0 THEN <<s>>
    ELSE <<SubSeq(s, 1, IndexOf(s, c) - 1)>> \o Split(SubSeq(s, IndexOf(s, c) + 1, Len(s)), c)

\* s.split(c, 1)
SplitOnce(s, c) ==
    IF IndexOf(s, c) = 0 THEN <<s>>
    ELSE <<SubSeq(s, 1, IndexOf(s, c) - 1), SubSeq(s, IndexOf(s, c) + 1, Len(s))>>

\* s.split()[0] for a string holding a non-blank character: its first word
FirstWord(s) == Split(LStrip(s), " ")[1]

\* The literals the code compares with or assigns
S_NA == <<"N", "/", "A">>
S_Zero == <<"0">>
S_star == <<"s", "t", "a", "r">>
S_review == <<"r", "e", "v", "i", "e", "w">>
S_open == <<"o", "p", "e", "n">>
S_close == <<"c", "l", "o", "s", "e">>
PlaceMarker == "/maps/place/"
DataMarker == "/data="

\* ============================================================ extract_place_details
\* urllib.parse.unquote_plus: '+' becomes a space, an escape becomes its character
UnquoteChar(c) == IF c = "+" \/ c = "%20" THEN " " ELSE c

UnquotePlus(s) == [i \in DOMAIN s |-> UnquoteChar(s[i])]

\* lines 19-25: the name is taken from the URL, "N/A" when the URL has no place part
NameFromUrl(place_url) ==
    IF place_url # << >> /\ Contains(place_url, <<PlaceMarker>>)
    THEN UnquotePlus(Split(Split(place_url, PlaceMarker)[2], DataMarker)[1])
    ELSE S_NA

\* What page.query_selector(sel) and the reads of the element answer: no element,
\* an error, or an element with its aria-label / href (<< >> when absent) and text
NoElem == [kind |-> "none", attr |-> << >>, text |-> << >>]
ElemError == [kind |-> "raise", attr |-> << >>, text |-> << >>]
Elem(a, t) == [kind |-> "elem", attr |-> a, text |-> t]

\* lines 38-52: first selector whose element has an aria-label naming stars; the first
\* word of the label is the rating.  An error leaves the value reached so far.
RECURSIVE RatingFrom(_, _)
RatingFrom(answers, rating) ==
    IF answers = << >> THEN rating
    ELSE LET e == Head(answers) IN
         IF e.kind = "raise" THEN rating
         ELSE IF e.kind = "elem" /\ e.attr # << >> /\ Contains(Lower(e.attr), S_star)
              THEN FirstWord(e.attr)
              ELSE RatingFrom(Tail(answers), rating)

DetailRating(page) == RatingFrom(page.rating, S_NA)

\* lines 55-83: the digits of the first word of the aria-label, else of the inner
\* text; an empty digit string is assigned and the search goes on
RECURSIVE ReviewsFrom(_, _)
ReviewsFrom(answers, count) ==
    IF answers = << >> THEN count
    ELSE LET e == Head(answers)
             fromAria == IF e.attr # << >> /\ Contains(Lower(e.attr), S_review)
                         THEN Keep(FirstWord(e.attr), DigitChars) ELSE count
             fromText == IF e.text # << >> /\ Contains(Lower(e.text), S_review)
                         THEN Keep(FirstWord(e.text), DigitChars) ELSE fromAria
         IN  IF e.kind = "raise" THEN count
             ELSE IF e.kind = "none" THEN ReviewsFrom(Tail(answers), count)
             ELSE IF e.attr # << >> /\ Contains(Lower(e.attr), S_review) /\ fromAria # << >>
                  THEN fromAria
             ELSE IF e.text # << >> /\ Contains(Lower(e.text), S_review) /\ fromText # << >>
                  THEN fromText
             ELSE ReviewsFrom(Tail(answers), fromText)

DetailReviews(page) == ReviewsFrom(page.reviews, S_Zero)

\* line 99: len(cat_text) < 50
MaxCategoryLen == 50

\* lines 86-103: the stripped inner text of the first category button that has one
RECURSIVE CategoryFrom(_, _)
CategoryFrom(answers, category) ==
    IF answers = << >> THEN category
    ELSE LET e == Head(answers) IN
         IF e.kind = "raise" THEN category
         ELSE IF e.kind = "elem" /\ e.text # << >> /\ Strip(e.text) # << >>
                 /\ Len(e.text) < MaxCategoryLen
              THEN Strip(e.text)
              ELSE CategoryFrom(Tail(answers), category)

DetailCategory(page) == CategoryFrom(page.category, S_NA)

\* lines 114-129: what follows the last ':' of the phone button's aria-label, stripped
RECURSIVE PhoneFrom(_, _)
PhoneFrom(answers, phone) ==
    IF answers = << >> THEN phone
    ELSE LET e == Head(answers) IN
         IF e.kind = "raise" THEN phone
         ELSE IF e.kind = "elem" /\ e.attr # << >> /\ Contains(e.attr, <<":">>)
              THEN Strip(Split(e.attr, ":")[Len(Split(e.attr, ":"))])
              ELSE PhoneFrom(Tail(answers), phone)

DetailPhone(page) == PhoneFrom(page.phone, S_NA)

\* Python's None inside a record of strings
PyNone == <<"None">>

\* lines 132-138: the href of the authority link, None when the link has no href
DetailWebsite(page) ==
    LET e == page.website IN
    IF e.kind = "elem" THEN (IF e.attr = << >> THEN PyNone ELSE e.attr) ELSE S_NA

\* lines 141-149: what follows the first ':' of the address button's aria-label
DetailAddress(page) ==
    LET e == page.address IN
    IF e.kind = "elem" /\ e.attr # << >> /\ Contains(e.attr, <<":">>)
    THEN Strip(SplitOnce(e.attr, ":")[2])
    ELSE S_NA

S_closed == <<"c", "l", "o", "s", "e", "d">>
S_am == <<"a", "m">>
S_pm == <<"p", "m">>
S_opens == <<"o", "p", "e", "n", "s">>
S_closes == <<"c", "l", "o", "s", "e", "s">>
\* "cdot" stands for the one character U+22C5 of line 190
S_openDot == <<"o", "p", "e", "n", " ", "cdot">>

\* line 191: len(text) < 100
MaxHoursLen == 100

\* lines 155-167, method 1: the aria-label of the first hours button naming open or
\* close; an error ends the whole hours block (line 195)
RECURSIVE HoursFrom(_)
HoursFrom(answers) ==
    IF answers = << >> THEN [v |-> S_NA, raised |-> FALSE]
    ELSE LET e == Head(answers) IN
         IF e.kind = "raise" THEN [v |-> S_NA, raised |-> TRUE]
         ELSE IF e.kind = "elem" /\ e.attr # << >>
                 /\ (Contains(Lower(e.attr), S_open) \/ Contains(Lower(e.attr), S_close))
              THEN [v |-> e.attr, raised |-> FALSE]
              ELSE HoursFrom(Tail(answers))

\* lines 170-181, method 2: the first information block naming open or closed
\* together with am, pm or a colon
RECURSIVE HoursFromDivs(_)
HoursFromDivs(texts) ==
    IF texts = << >> THEN S_NA
    ELSE LET t == Head(texts) IN
         IF /\ t # << >>
            /\ (Contains(Lower(t), S_open) \/ Contains(Lower(t), S_closed))
            /\ (Contains(Lower(t), S_am) \/ Contains(Lower(t), S_pm) \/ Contains(t, <<":">>))
         THEN t
         ELSE HoursFromDivs(Tail(texts))

\* lines 184-193, method 3: the first short span naming opens, closes or "open ."
RECURSIVE HoursFromSpans(_)
HoursFromSpans(texts) ==
    IF texts = << >> THEN S_NA
    ELSE LET t == Head(texts) IN
         IF /\ t # << >>
            /\ \/ Contains(Lower(t), S_opens)
               \/ Contains(Lower(t), S_closes)
               \/ Contains(Lower(t), S_openDot)
            /\ Len(t) < MaxHoursLen
         THEN t
         ELSE HoursFromSpans(Tail(texts))

\* lines 152-196
DetailHours(page) ==
    LET m1 == HoursFrom(page.hours) IN
    IF m1.raised \/ m1.v # S_NA THEN m1.v
    ELSE IF HoursFromDivs(page.hours_divs) # S_NA THEN HoursFromDivs(page.hours_divs)
    ELSE HoursFromSpans(page.hours_spans)

SummaryKeys == {"name", "url", "rating", "reviews_count", "category"}
FullKeys == {"phone", "website", "address", "hours"}

\* lines 27-30, 105-109, 198-203: place_data as it is returned at line 206
PlaceDataOf(page) ==
    [k \in SummaryKeys \cup (IF page.full THEN FullKeys ELSE {}) |->
        CASE k = "name" -> NameFromUrl(page.url)
          [] k = "url" -> page.url
          [] k = "rating" -> DetailRating(page)
          [] k = "reviews_count" -> DetailReviews(page)
          [] k = "category" -> DetailCategory(page)
          [] k = "phone" -> DetailPhone(page)
          [] k = "website" -> DetailWebsite(page)
          [] k = "address" -> DetailAddress(page)
          [] k = "hours" -> DetailHours(page)]

\* What a call has returned: nothing yet, None, or a mapping
Pending == [ret |-> "pending", data |-> << >>]
ReturnedNone == [ret |-> "None", data |-> << >>]
Returned(d) == [ret |-> "record", data |-> d]

\* lines 34-206: page.goto returned; the fields are read and place_data is returned
DetailGotoOk ==
    /\ pc = "extract_place_details"
    /\ place_data = Pending
    /\ place_data' = Returned(PlaceDataOf(detail_page))
    /\ UNCHANGED <<detail_page, html_content, place_details, request, response>>
    /\ UNCHANGED <<mainVars, max_places, max_workers, consentVars, scrollVars, linkVars>>
    /\ UNCHANGED <<poolVars, results>>

\* lines 34, 208-210: page.goto raised; the outer except returns None
DetailGotoRaises ==
    /\ pc = "extract_place_details"
    /\ place_data = Pending
    /\ place_data' = ReturnedNone
    /\ UNCHANGED <<detail_page, html_content, place_details, request, response>>
    /\ UNCHANGED <<mainVars, max_places, max_workers, consentVars, scrollVars, linkVars>>
    /\ UNCHANGED <<poolVars, results>>

DetailNext == DetailGotoOk \/ DetailGotoRaises

\* ---- the detail pages one call is tried on
Lit_4_6_stars == <<"4", ".", "6", " ", "s", "t", "a", "r", "s">>
Lit_0_9_Stars == <<"0", ".", "9", " ", "S", "t", "a", "r", "s">>
Lit_Rated == <<"R", "a", "t", "e", "d">>
Lit_12_reviews == <<"1", ",", "2", "3", "4", " ", "r", "e", "v", "i", "e", "w", "s">>
Lit_Reviews == <<"R", "e", "v", "i", "e", "w", "s">>
Lit_Cafe == <<" ", "C", "a", "f", "e", " ">>
Lit_PhoneLabel ==
    <<"P", "h", "o", "n", "e", ":", " ", "+", "1", " ", "(", "4", "1", "5", ")", " ",
      "5", "5", "5", "-", "0", "1", "3", "2">>
Lit_PhoneShort == <<"P", "h", "o", "n", "e", ":", " ", "5", "5", "5">>
Lit_Href == <<"h", "t", "t", "p", "s", ":", "/", "/", "x", ".", "c", "o">>
Lit_AddressLabel ==
    <<"A", "d", "d", "r", "e", "s", "s", ":", " ", "1", "2", " ", "R", "u", "e", ":", "B">>
Lit_OpenHours == <<"O", "p", "e", "n", " ", "9", " ", "a", "m">>
Lit_ClosesSoon == <<"C", "l", "o", "s", "e", "s", " ", "5", " ", "p", "m">>

UrlWithName == <<"h", PlaceMarker, "C", "a", "f", "e", "+", "B", "a", "r", DataMarker, "x">>
UrlEmptyName == <<"h", PlaceMarker, DataMarker, "x">>
UrlNoPlace == <<"h", "/", "s", "e", "a", "r", "c", "h">>

DetailUrls == {UrlWithName, UrlEmptyName, UrlNoPlace}

RatingAnswers == {NoElem, ElemError, Elem(Lit_4_6_stars, << >>),
                  Elem(Lit_0_9_Stars, << >>), Elem(Lit_Rated, << >>)}
ReviewAnswers == {NoElem, ElemError, Elem(Lit_12_reviews, << >>),
                  Elem(Lit_Reviews, Lit_12_reviews), Elem(Lit_Reviews, Lit_Reviews)}
CategoryAnswers == {NoElem, ElemError, Elem(<< >>, Lit_Cafe),
                    Elem(<< >>, Rep("a", MaxCategoryLen)), Elem(<< >>, <<" ">>)}
PhoneAnswers == {NoElem, ElemError, Elem(Lit_PhoneLabel, << >>),
                 Elem(Lit_PhoneShort, << >>), Elem(Lit_Rated, << >>)}
WebsiteAnswers == {NoElem, ElemError, Elem(Lit_Href, << >>), Elem(<< >>, << >>)}
AddressAnswers == {NoElem, ElemError, Elem(Lit_AddressLabel, << >>), Elem(Lit_Rated, << >>)}
HoursAnswers == {NoElem, ElemError, Elem(Lit_OpenHours, << >>), Elem(Lit_Rated, << >>)}
HoursTexts == {<< >>, <<Lit_OpenHours>>, <<Lit_Rated, Lit_ClosesSoon>>}

\* A page on which no selector finds anything
BlankPage ==
    [url |-> UrlWithName, full |-> TRUE, has_name_element |-> FALSE,
     rating |-> <<NoElem, NoElem>>, reviews |-> <<NoElem, NoElem>>,
     category |-> <<NoElem, NoElem, NoElem>>, phone |-> <<NoElem, NoElem, NoElem>>,
     website |-> NoElem, address |-> NoElem, hours |-> <<NoElem, NoElem, NoElem>>,
     hours_divs |-> << >>, hours_spans |-> << >>]

\* Pages differing from the blank page in the answers for one field
PagesByField ==
    {[BlankPage EXCEPT !.rating = a] : a \in [1..2 -> RatingAnswers]}
    \cup {[BlankPage EXCEPT !.reviews = a] : a \in [1..2 -> ReviewAnswers]}
    \cup {[BlankPage EXCEPT !.category = a] : a \in [1..3 -> CategoryAnswers]}
    \cup {[BlankPage EXCEPT !.phone = a] : a \in [1..3 -> PhoneAnswers]}
    \cup {[BlankPage EXCEPT !.website = a] : a \in WebsiteAnswers}
    \cup {[BlankPage EXCEPT !.address = a] : a \in AddressAnswers}
    \cup {[BlankPage EXCEPT !.hours = a, !.hours_divs = d, !.hours_spans = t] :
             a \in [1..3 -> HoursAnswers], d \in HoursTexts, t \in HoursTexts}

DetailPages ==
    {[p EXCEPT !.url = u, !.full = f, !.has_name_element = n] :
        p \in PagesByField, u \in DetailUrls, f \in BOOLEAN, n \in BOOLEAN}

\* One call of extract_place_details(page, place_url, extract_full_details)
InitDetail ==
    /\ EntryPoint("extract_place_details")
    /\ detail_page \in DetailPages
    /\ place_data = Pending
    /\ html_content = Idle
    /\ place_details = Idle
    /\ request = Idle
    /\ response = Idle

SpecDetail == InitDetail /\ [][DetailNext]_vars

\* ============================================================ main_api.scrape_post
\* main_api.py line 79: the largest max_places accepted
MaxPlacesLimit == 100

\* Optional[int]: Python's None or an integer
NoInt == [some |-> FALSE, v |-> 0]
SomeInt(n) == [some |-> TRUE, v |-> n]

\* main_api.py line 76: not request.query or request.query.strip() == ""
BlankQuery(query) == query = << >> \/ Strip(query) = << >>

\* main_api.py line 79: request.max_places < 1 or request.max_places > 100
BadMaxPlaces(n) == n < 1 \/ n > MaxPlacesLimit

NoResponse == [status |-> 0, scraped |-> FALSE]
HttpResponse(code, called) == [status |-> code, scraped |-> called]

\* main_api.py lines 76-77, 99-101: HTTPException(400) is raised inside the try
\* block; the except Exception clause catches it and raises HTTPException(500)
RejectQuery ==
    /\ pc = "scrape_post"
    /\ BlankQuery(request.query)
    /\ response' = HttpResponse(500, FALSE)
    /\ pc' = "responded"
    /\ UNCHANGED <<exc_at, browser, browser_closes, request>>
    /\ UNCHANGED <<html_content, place_details, detail_page, place_data>>
    /\ UNCHANGED <<max_places, max_workers, consentVars, scrollVars, linkVars>>
    /\ UNCHANGED <<poolVars, results>>

\* main_api.py lines 79-80, 99-101: the same for max_places out of range; a null
\* max_places makes the comparison raise TypeError, caught by the same clause
RejectMaxPlaces ==
    /\ pc = "scrape_post"
    /\ ~BlankQuery(request.query)
    /\ ~request.max_places.some \/ BadMaxPlaces(request.max_places.v)
    /\ response' = HttpResponse(500, FALSE)
    /\ pc' = "responded"
    /\ UNCHANGED <<exc_at, browser, browser_closes, request>>
    /\ UNCHANGED <<html_content, place_details, detail_page, place_data>>
    /\ UNCHANGED <<max_places, max_workers, consentVars, scrollVars, linkVars>>
    /\ UNCHANGED <<poolVars, results>>

\* main_api.py lines 82-88: scrape_google_maps is awaited with the request's values
CallScrape ==
    /\ pc = "scrape_post"
    /\ ~BlankQuery(request.query)
    /\ request.max_places.some /\ ~BadMaxPlaces(request.max_places.v)
    /\ max_places' = request.max_places.v
    /\ pc' = "scrape_google_maps"
    /\ UNCHANGED <<exc_at, browser, browser_closes, request, response>>
    /\ UNCHANGED <<html_content, place_details, detail_page, place_data>>
    /\ UNCHANGED <<max_workers, consentVars, scrollVars, linkVars>>
    /\ UNCHANGED <<poolVars, results>>

\* main_api.py lines 90-97: scrape_google_maps returned its list
ScrapeReturned ==
    /\ pc = "scrape_google_maps"
    /\ response' = HttpResponse(200, TRUE)
    /\ pc' = "responded"
    /\ UNCHANGED <<exc_at, browser, browser_closes, request>>
    /\ UNCHANGED <<html_content, place_details, detail_page, place_data>>
    /\ UNCHANGED <<max_places, max_workers, consentVars, scrollVars, linkVars>>
    /\ UNCHANGED <<poolVars, results>>

\* main_api.py lines 99-101: scrape_google_maps raised
ScrapeRaised ==
    /\ pc = "scrape_google_maps"
    /\ response' = HttpResponse(500, TRUE)
    /\ pc' = "responded"
    /\ UNCHANGED <<exc_at, browser, browser_closes, request>>
    /\ UNCHANGED <<html_content, place_details, detail_page, place_data>>
    /\ UNCHANGED <<max_places, max_workers, consentVars, scrollVars, linkVars>>
    /\ UNCHANGED <<poolVars, results>>

ApiNext == RejectQuery \/ RejectMaxPlaces \/ CallScrape \/ ScrapeReturned \/ ScrapeRaised

Queries == {<< >>, <<" ">>, <<" ", " ">>, <<"c", "a", "f", "e">>, <<" ", "b", "a", "r">>}

\* One POST /scrape request: any query, max_places null or around the accepted range
InitApi ==
    /\ EntryPoint("scrape_post")
    /\ request \in [query : Queries,
                    max_places : {NoInt} \cup {SomeInt(n) : n \in 0..MaxPlacesLimit + 1}]
    /\ response = NoResponse
    /\ html_content = Idle
    /\ place_details = Idle
    /\ detail_page = Idle
    /\ place_data = Idle

SpecApi == InitApi /\ [][ApiNext]_vars

\* ============================================================ extractor.py
\* An optional value: Python's None, or a value
Nothing == [some |-> FALSE, v |-> << >>]
Some(x) == [some |-> TRUE, v |-> x]

\* ---- decoded JSON values: null, a number, a string, a list, the empty object
JNull == [t |-> "null", n |-> 0, s |-> << >>, items |-> << >>]
JNum(k) == [t |-> "num", n |-> k, s |-> << >>, items |-> << >>]
JStr(chars) == [t |-> "str", n |-> 0, s |-> chars, items |-> << >>]
JList(xs) == [t |-> "list", n |-> 0, s |-> << >>, items |-> xs]
JDict == [t |-> "dict", n |-> 0, s |-> << >>, items |-> << >>]

\* json.loads raised JSONDecodeError
JError == [t |-> "error", n |-> 0, s |-> << >>, items |-> << >>]

\* bool(x) of a decoded value
Truthy(j) ==
    CASE j.t = "num" -> j.n # 0
      [] j.t = "str" -> j.s # << >>
      [] j.t = "list" -> j.items # << >>
      [] OTHER -> FALSE

\* ---- JSON text: a sequence of tokens.  A number or a string literal is one token.
NumTokens == {"0", "2", "5", "48"}
StrTokens == {"str_empty", "str_name", "str_place_id", "str_cid"}

NumOf(tok) == CASE tok = "0" -> 0 [] tok = "2" -> 2 [] tok = "5" -> 5 [] tok = "48" -> 48

MetaName == <<"M", "e", "t", "a">>
MetaPlaceId == <<"ChIJ", "m", "e", "t", "a">>
MetaCid == <<"0x", "1", ":", "0x", "2">>

StrOf(tok) ==
    CASE tok = "str_empty" -> << >>
      [] tok = "str_name" -> MetaName
      [] tok = "str_place_id" -> MetaPlaceId
      [] tok = "str_cid" -> MetaCid

\* ---- json.loads: a recursive-descent parse of the token sequence
ParseFail == [ok |-> FALSE, val |-> JNull, next |-> 0]
Parsed(j, k) == [ok |-> TRUE, val |-> j, next |-> k]

RECURSIVE ParseValue(_, _)
RECURSIVE ParseItems(_, _, _)
ParseValue(toks, i) ==
    IF i > Len(toks) THEN ParseFail
    ELSE IF toks[i] = "[" THEN
            IF i < Len(toks) /\ toks[i + 1] = "]" THEN Parsed(JList(<< >>), i + 2)
            ELSE ParseItems(toks, i + 1, << >>)
    ELSE IF toks[i] = "{" THEN
            IF i < Len(toks) /\ toks[i + 1] = "}" THEN Parsed(JDict, i + 2) ELSE ParseFail
    ELSE IF toks[i] = "null" THEN Parsed(JNull, i + 1)
    ELSE IF toks[i] \in NumTokens THEN Parsed(JNum(NumOf(toks[i])), i + 1)
    ELSE IF toks[i] \in StrTokens THEN Parsed(JStr(StrOf(toks[i])), i + 1)
    ELSE ParseFail

ParseItems(toks, i, acc) ==
    LET r == ParseValue(toks, i) IN
    IF ~r.ok \/ r.next > Len(toks) THEN ParseFail
    ELSE IF toks[r.next] = "," THEN ParseItems(toks, r.next + 1, Append(acc, r.val))
    ELSE IF toks[r.next] = "]" THEN Parsed(JList(Append(acc, r.val)), r.next + 1)
    ELSE ParseFail

NotSpace(tok) == tok # " "

\* line 72: json.loads(json_str); whitespace between tokens is skipped
JsonLoads(json_str) ==
    LET toks == SelectSeq(json_str, NotSpace)
        r == ParseValue(toks, 1)
    IN  IF r.ok /\ r.next = Len(toks) + 1 THEN r.val ELSE JError

\* ---- extract_initial_json, lines 42-61.  html.payload is what the regex of line 48
\* captures between the assignment and ";window.APP_FLAGS", if it matches
ExtractInitialJson(html) ==
    IF ~html.payload.some THEN Nothing
    ELSE IF Strip(html.payload.v) # << >> /\ Strip(html.payload.v)[1] \in {"[", "{"}
         THEN Some(html.payload.v)
         ELSE Nothing

\* ---- parse_json_data, lines 63-106
IsList(j) == j.t = "list"
PyLen(j) == Len(j.items)

\* j[i] with Python's index from 0
At(j, i) == j.items[i + 1]

NoCoords == [some |-> FALSE, lat |-> JNull, lon |-> JNull]

\* No metadata: the function returned None
NoMeta ==
    [raised |-> FALSE, some |-> FALSE, cid |-> JNull, name |-> JNull,
     place_id |-> JNull, coordinates |-> NoCoords]

\* lines 89-93
CoordsOf(blob) ==
    IF /\ PyLen(blob) > 7
       /\ IsList(At(blob, 7))
       /\ PyLen(At(blob, 7)) >= 4
       /\ At(At(blob, 7), 2).t # "null"
       /\ At(At(blob, 7), 3).t # "null"
    THEN [some |-> TRUE, lat |-> At(At(blob, 7), 2), lon |-> At(At(blob, 7), 3)]
    ELSE NoCoords

\* lines 81-96
MetaOf(blob) ==
    [raised |-> FALSE, some |-> TRUE,
     cid |-> IF PyLen(blob) > 0 THEN At(blob, 0) ELSE JNull,
     name |-> IF PyLen(blob) > 1 THEN At(blob, 1) ELSE JNull,
     place_id |-> IF PyLen(blob) > 18 THEN At(blob, 18) ELSE JNull,
     coordinates |-> CoordsOf(blob)]

\* An exception escapes parse_json_data
JsonDecodeErrorPropagates == [NoMeta EXCEPT !.raised = TRUE]

\* lines 101-106: the except clauses log and return None
JsonDecodeErrorCaught == NoMeta

\* lines 69-106
ParseJsonData(json_str) ==
    IF json_str = << >> THEN NoMeta
    ELSE LET d == JsonLoads(json_str) IN
         IF d.t = "error" THEN JsonDecodeErrorCaught
         ELSE IF /\ IsList(d) /\ PyLen(d) > 5
                 /\ IsList(At(d, 5)) /\ PyLen(At(d, 5)) > 3
                 /\ IsList(At(At(d, 5), 3)) /\ PyLen(At(At(d, 5), 3)) > 2
                 /\ IsList(At(At(At(d, 5), 3), 2))
                 /\ PyLen(At(At(At(d, 5), 3), 2)) >= 19
              THEN MetaOf(At(At(At(d, 5), 3), 2))
              ELSE NoMeta

\* lines 427-434 of extract_place_data
MetadataOf(html) ==
    IF ExtractInitialJson(html).some THEN ParseJsonData(ExtractInitialJson(html).v)
    ELSE NoMeta

\* ---- the markup seen through the regular expressions.  html.dom lists, in document
\* order, the regions of the markup a pattern of the module can match: kind names the
\* pattern and text is the part of the region its group captures from.
Frag(k, t) == [kind |-> k, text |-> t]

\* Patterns of the form aria-label="Label:\s*([^"]+)": text is what follows the colon
LabelPatterns == {"aria_address", "aria_website", "aria_phone", "aria_category", "aria_hours"}

\* \s*([^"]+) on a non-empty text: leading blanks are skipped, but the group keeps
\* one character when the text is all blanks
AfterLabel(text) == IF LStrip(text) = << >> THEN <<text[Len(text)]>> ELSE LStrip(text)

\* line 141: <title>([^-]+?)\s*-\s*Google Maps</title> against the title's content
TitleMatches(text) ==
    /\ IndexOf(text, "-") > 1
    /\ LStrip(SubSeq(text, IndexOf(text, "-") + 1, Len(text))) = <<"Google Maps">>

TitleCapture(text) ==
    LET pre == SubSeq(text, 1, IndexOf(text, "-") - 1) IN
    IF RStrip(pre) = << >> THEN <<pre[1]>> ELSE RStrip(pre)

\* Whether the region matches the pattern.  A star label that also counts reviews
\* holds "N reviews", and a call tooltip holds href="tel:...".
Matches(pattern, f) ==
    \/ f.kind = pattern /\ (pattern = "title" => TitleMatches(f.text))
    \/ pattern = "reviews_text" /\ f.kind = "aria_stars_reviews"
    \/ pattern = "tel_href" /\ f.kind = "call_tooltip_tel"

\* group(1) of the match
Capture(pattern, f) ==
    IF pattern \in LabelPatterns THEN AfterLabel(f.text)
    ELSE IF pattern = "title" THEN TitleCapture(f.text)
    ELSE IF pattern = "item_phone_aria" THEN <<f.text[Len(f.text)]>>
    ELSE f.text

\* re.findall(pattern, html_content): every capture, in document order
FindAll(html, pattern) ==
    LET hits == SelectSeq(html.dom, LAMBDA f : Matches(pattern, f)) IN
    [i \in DOMAIN hits |-> Capture(pattern, hits[i])]

\* lines 111-120.  The pattern "show_open_hours" has no group: match.group(1) raises
\* IndexError, which line 118 catches, and the default None is returned
ExtractFromHtml(html, pattern) ==
    IF pattern = "show_open_hours" \/ FindAll(html, pattern) = << >> THEN Nothing
    ELSE Some(FindAll(html, pattern)[1])

\* if x: for an optional string
TruthyStr(o) == o.some /\ o.v # << >>

\* re.sub(r'<[^>]+>', '', text)
RECURSIVE StripTags(_)
StripTags(s) ==
    IF s = << >> THEN << >>
    ELSE IF Head(s) = "<" /\ IndexOf(Tail(s), ">") > 1
         THEN StripTags(SubSeq(s, IndexOf(Tail(s), ">") + 2, Len(s)))
         ELSE <<Head(s)>> \o StripTags(Tail(s))

\* line 129: the four entities, each one token of the text
UnescapeChar(c) ==
    CASE c = "&amp;" -> "&" [] c = "&lt;" -> "<" [] c = "&gt;" -> ">" [] c = "&quot;" -> "\""
      [] OTHER -> c

\* re.sub(r'\s+', ' ', text)
RECURSIVE CollapseWs(_)
CollapseWs(s) ==
    IF Len(s) < 2 THEN s
    ELSE IF s[1] = " " /\ s[2] = " " THEN CollapseWs(Tail(s))
    ELSE <<Head(s)>> \o CollapseWs(Tail(s))

\* lines 122-132
CleanHtmlText(text) ==
    IF text = << >> THEN Nothing
    ELSE LET untagged == StripTags(text)
             decoded == [i \in DOMAIN untagged |-> UnescapeChar(untagged[i])]
             cleaned == Strip(CollapseWs(decoded))
         IN  IF cleaned = << >> THEN Nothing ELSE Some(cleaned)

\* ---- values of the record: JSON values, floats, and the coordinates mapping
JFloat(num, scale) == [t |-> "float", n |-> num, s |-> << >>, items |-> <<JNum(scale)>>]
JCoords(lat, lon) == [t |-> "coords", n |-> 0, s |-> << >>, items |-> <<lat, lon>>]

RECURSIVE Pow10(_)
Pow10(k) == IF k = 0 THEN 1 ELSE 10 * Pow10(k - 1)

\* int() of a string of digits
RECURSIVE PyInt(_)
PyInt(digits) ==
    IF digits = << >> THEN 0
    ELSE 10 * PyInt(SubSeq(digits, 1, Len(digits) - 1)) + DigitVal(digits[Len(digits)])

DigitChar(d) ==
    CASE d = 0 -> "0" [] d = 1 -> "1" [] d = 2 -> "2" [] d = 3 -> "3" [] d = 4 -> "4"
      [] d = 5 -> "5" [] d = 6 -> "6" [] d = 7 -> "7" [] d = 8 -> "8" [] d = 9 -> "9"

\* str() of a natural number
RECURSIVE IntToStr(_)
IntToStr(k) == IF k < 10 THEN <<DigitChar(k)>> ELSE IntToStr(k \div 10) \o <<DigitChar(k % 10)>>

\* float() of a string of digits and dots with an optional leading minus: ValueError
\* unless there is a digit and at most one dot.  The value is num / 10^scale.
PyFloat(str) ==
    LET neg == str # << >> /\ Head(str) = "-"
        body == IF neg THEN Tail(str) ELSE str
        digits == Keep(body, DigitChars)
        dot == IndexOf(body, ".")
    IN  IF /\ digits # << >>
           /\ Len(Keep(body, {"."})) <= 1
           /\ Len(digits) + Len(Keep(body, {"."})) = Len(body)
        THEN [ok |-> TRUE,
              num |-> IF neg THEN 0 - PyInt(digits) ELSE PyInt(digits),
              scale |-> IF dot = 0 THEN 0 ELSE Len(body) - dot]
        ELSE [ok |-> FALSE, num |-> 0, scale |-> 0]

\* ---- get_main_name, lines 134-155
RECURSIVE NameFromDom(_, _)
NameFromDom(html, patterns) ==
    IF patterns = << >> THEN Nothing
    ELSE IF TruthyStr(ExtractFromHtml(html, Head(patterns)))
         THEN CleanHtmlText(ExtractFromHtml(html, Head(patterns)).v)
         ELSE NameFromDom(html, Tail(patterns))

NamePatterns == <<"title", "h1_span", "h1_DUwDvf">>

GetMainName(html, metadata) ==
    IF metadata.some /\ Truthy(metadata.name) THEN Some(metadata.name)
    ELSE IF NameFromDom(html, NamePatterns).some
         THEN Some(JStr(NameFromDom(html, NamePatterns).v))
         ELSE Nothing

\* ---- get_place_id, lines 157-165
GetPlaceId(html, metadata) ==
    IF metadata.some /\ Truthy(metadata.place_id) THEN Some(metadata.place_id)
    ELSE IF ExtractFromHtml(html, "place_id").some
         THEN Some(JStr(ExtractFromHtml(html, "place_id").v))
         ELSE Nothing

\* ---- get_place_id_cid, lines 167-175
GetPlaceIdCid(html, metadata) ==
    IF metadata.some /\ Truthy(metadata.cid) THEN Some(metadata.cid)
    ELSE IF ExtractFromHtml(html, "cid").some
         THEN Some(JStr(ExtractFromHtml(html, "cid").v))
         ELSE Nothing

ReviewsUrlPrefix == "https://search.google.com/local/reviews?placeid="

\* str(cid) inside the f-string of line 190
FormatValue(j) ==
    CASE j.t = "str" -> j.s
      [] j.t = "num" -> IntToStr(j.n)
      [] OTHER -> <<"repr">>

\* ---- get_reviews_url, lines 177-191
GetReviewsUrl(html, metadata) ==
    IF GetPlaceIdCid(html, metadata).some /\ Truthy(GetPlaceIdCid(html, metadata).v)
    THEN Some(JStr(<<ReviewsUrlPrefix>> \o FormatValue(GetPlaceIdCid(html, metadata).v)))
    ELSE Nothing

\* ---- get_gps_coordinates, lines 193-209
GetGpsCoordinates(html, metadata) ==
    LET lat == ExtractFromHtml(html, "latitude")
        lon == ExtractFromHtml(html, "longitude")
    IN  IF metadata.some /\ metadata.coordinates.some
        THEN Some(JCoords(metadata.coordinates.lat, metadata.coordinates.lon))
        ELSE IF TruthyStr(lat) /\ TruthyStr(lon) /\ PyFloat(lat.v).ok /\ PyFloat(lon.v).ok
             THEN Some(JCoords(JFloat(PyFloat(lat.v).num, PyFloat(lat.v).scale),
                               JFloat(PyFloat(lon.v).num, PyFloat(lon.v).scale)))
             ELSE Nothing

\* ---- get_complete_address, lines 211-230
MinAddressLen == 10

AddressPatterns ==
    <<"aria_address", "item_address_aria", "item_address_button", "formatted_address",
      "button_aria_numbered">>

\* line 227
AddressValid(cleaned) ==
    /\ cleaned.some
    /\ Len(cleaned.v) > MinAddressLen
    /\ \E i \in DOMAIN cleaned.v : IsDigit(cleaned.v[i])

RECURSIVE AddressFrom(_, _)
AddressFrom(html, patterns) ==
    IF patterns = << >> THEN Nothing
    ELSE LET address == ExtractFromHtml(html, Head(patterns)) IN
         IF TruthyStr(address) /\ AddressValid(CleanHtmlText(address.v))
         THEN Some(JStr(CleanHtmlText(address.v).v))
         ELSE AddressFrom(html, Tail(patterns))

GetCompleteAddress(html) == AddressFrom(html, AddressPatterns)

\* ---- get_rating, lines 232-252
MinRating == 1
MaxRating == 5

\* line 239: 1.0 <= rating <= 5.0
RatingInRange(f) ==
    MinRating * Pow10(f.scale) <= f.num /\ f.num <= MaxRating * Pow10(f.scale)

GetRating(html) ==
    LET first == ExtractFromHtml(html, "aria_stars")
        second == ExtractFromHtml(html, "out_of_5")
    IN  IF TruthyStr(first) /\ PyFloat(first.v).ok /\ RatingInRange(PyFloat(first.v))
        THEN Some(JFloat(PyFloat(first.v).num, PyFloat(first.v).scale))
        ELSE IF TruthyStr(second) /\ PyFloat(second.v).ok
             THEN Some(JFloat(PyFloat(second.v).num, PyFloat(second.v).scale))
             ELSE Nothing

\* ---- get_reviews_count, lines 254-275
MaxReviews == 10000000

ReviewPatterns == <<"aria_stars_reviews", "reviews_text", "google_reviews">>

\* line 268: int(count_str.replace(',', '')) raises ValueError on the empty string
CountParses(count_str) == Keep(count_str, DigitChars) # << >>
CountOf(count_str) == PyInt(Keep(count_str, DigitChars))

\* line 270
CountInRange(count) == 0 < count /\ count < MaxReviews

RECURSIVE ReviewsCountFrom(_, _)
ReviewsCountFrom(html, patterns) ==
    IF patterns = << >> THEN Nothing
    ELSE LET count_str == ExtractFromHtml(html, Head(patterns)) IN
         IF TruthyStr(count_str) /\ CountParses(count_str.v)
                /\ CountInRange(CountOf(count_str.v))
         THEN Some(JNum(CountOf(count_str.v)))
         ELSE ReviewsCountFrom(html, Tail(patterns))

GetReviewsCount(html) == ReviewsCountFrom(html, ReviewPatterns)

\* ---- get_website, lines 277-298
WebsitePatterns ==
    <<"authority_href", "aria_website", "a_aria_website_href", "tooltip_website_href">>

\* "http://" and "https://" are single tokens of a text
HasProtocol(s) == \E i \in DOMAIN s : s[i] \in {"http://", "https://"}

\* line 292
WebsiteValid(cleaned) ==
    cleaned.some /\ (HasProtocol(cleaned.v) \/ Contains(cleaned.v, <<".">>))

\* website.startswith('http')
StartsWithHttp(s) ==
    s # << >> /\ (s[1] \in {"http://", "https://"} \/ SubSeq(s, 1, 4) = <<"h", "t", "t", "p">>)

RECURSIVE WebsiteFrom(_, _)
WebsiteFrom(html, patterns) ==
    IF patterns = << >> THEN Nothing
    ELSE LET website == ExtractFromHtml(html, Head(patterns)) IN
         IF TruthyStr(website) /\ WebsiteValid(CleanHtmlText(website.v))
         THEN IF StartsWithHttp(CleanHtmlText(website.v).v)
              THEN Some(JStr(CleanHtmlText(website.v).v))
              ELSE Some(JStr(<<"https://">> \o CleanHtmlText(website.v).v))
         ELSE WebsiteFrom(html, Tail(patterns))

GetWebsite(html) == WebsiteFrom(html, WebsitePatterns)

\* ---- get_phone_number, lines 300-320
\* line 317: a phone number has at least this many digits
MinPhoneDigits == 10

PhonePatterns ==
    <<"aria_phone", "tel_href", "item_phone_aria", "call_tooltip_tel", "button_aria_phone">>

PhoneResult(r, o) == [raised |-> r, some |-> o.some, v |-> o.v]

\* lines 315-316: clean_html_text returns None for a candidate of blanks or tags
\* only, and re.sub(r'\D', '', None) raises TypeError, which nothing catches
RECURSIVE PhoneNumberFrom(_, _)
PhoneNumberFrom(html, patterns) ==
    IF patterns = << >> THEN PhoneResult(FALSE, Nothing)
    ELSE LET phone == ExtractFromHtml(html, Head(patterns)) IN
         IF ~TruthyStr(phone) THEN PhoneNumberFrom(html, Tail(patterns))
         ELSE IF ~CleanHtmlText(phone.v).some THEN PhoneResult(TRUE, Nothing)
         ELSE IF Len(Keep(CleanHtmlText(phone.v).v, DigitChars)) >= MinPhoneDigits
              THEN PhoneResult(FALSE, Some(JStr(Keep(CleanHtmlText(phone.v).v, DigitChars))))
              ELSE PhoneNumberFrom(html, Tail(patterns))

GetPhoneNumber(html) == PhoneNumberFrom(html, PhonePatterns)

\* ---- get_categories, lines 322-371
CategoryPatterns == <<"aria_category", "item_category_aria", "jsaction_category">>

ExcludedTerms ==
    {<<"s", "a", "v", "e">>,
     <<"s", "h", "a", "r", "e">>,
     <<"s", "e", "n", "d">>,
     <<"d", "i", "r", "e", "c", "t", "i", "o", "n", "s">>,
     <<"w", "e", "b", "s", "i", "t", "e">>,
     <<"c", "a", "l", "l">>,
     <<"m", "e", "n", "u">>,
     <<"o", "r", "d", "e", "r">>,
     <<"r", "e", "s", "e", "r", "v", "e">>,
     <<"l", "e", "a", "r", "n", " ", "m", "o", "r", "e">>,
     <<"s", "h", "o", "w", " ", "s", "l", "i", "d", "e", "r">>,
     <<"p", "h", "o", "t", "o", "s">>,
     <<"r", "e", "v", "i", "e", "w", "s">>,
     <<"o", "v", "e", "r", "v", "i", "e", "w">>,
     <<"a", "b", "o", "u", "t">>,
     <<"u", "p", "d", "a", "t", "e", "s">>,
     <<"s", "h", "o", "w">>,
     <<"h", "i", "d", "e">>,
     <<"m", "o", "r", "e">>,
     <<"l", "e", "s", "s">>,
     <<"s", "e", "e">>,
     <<"v", "i", "e", "w">>,
     <<"e", "d", "i", "t">>,
     <<"s", "u", "g", "g", "e", "s", "t">>,
     <<"c", "l", "a", "i", "m">>,
     <<"a", "d", "d">>,
     <<"r", "e", "p", "o", "r", "t">>,
     <<"n", "e", "a", "r", "b", "y">>,
     <<"s", "i", "m", "i", "l", "a", "r">>,
     <<"c", "o", "p", "y">>,
     <<"c", "l", "o", "s", "e">>}

\* line 352
UiWords ==
    {<<"c", "l", "i", "c", "k">>,
     <<"b", "u", "t", "t", "o", "n">>,
     <<"o", "p", "e", "n">>,
     <<"s", "h", "o", "w">>,
     <<"h", "i", "d", "e">>}

\* line 355: the separators , and the two dots, each one token
Separators == {",", "middot", "bullet"}

MinCategoryLen == 2

\* re.split(r'[,..]', cleaned)
RECURSIVE SplitAny(_, _)
SplitAny(s, seps) ==
    LET hits == {i \in DOMAIN s : s[i] \in seps} IN
    IF hits = {} THEN <<s>>
    ELSE LET i == CHOOSE k \in hits : \A m \in hits : k <= m IN
         <<SubSeq(s, 1, i - 1)>> \o SplitAny(SubSeq(s, i + 1, Len(s)), seps)

\* lines 355-358: the parts of one cleaned match that are kept
CategoryParts(cleaned) ==
    LET cats == SplitAny(cleaned, Separators)
        stripped == [i \in DOMAIN cats |-> Strip(cats[i])]
    IN  SelectSeq(stripped,
                  LAMBDA cat : Len(cat) > MinCategoryLen /\ Lower(cat) \notin ExcludedTerms)

\* lines 345-358 for one match
CategoriesOfMatch(match) ==
    LET cleaned == CleanHtmlText(match) IN
    IF /\ cleaned.some
       /\ MinCategoryLen < Len(cleaned.v) /\ Len(cleaned.v) < MaxCategoryLen
       /\ Lower(cleaned.v) \notin ExcludedTerms
       /\ \A word \in UiWords : ~Contains(Lower(cleaned.v), word)
    THEN CategoryParts(cleaned.v)
    ELSE << >>

RECURSIVE Concat(_)
Concat(seqs) == IF seqs = << >> THEN << >> ELSE Head(seqs) \o Concat(Tail(seqs))

\* lines 341-358
AllCategories(html) ==
    Concat([p \in DOMAIN CategoryPatterns |->
              Concat([m \in DOMAIN FindAll(html, CategoryPatterns[p]) |->
                        CategoriesOfMatch(FindAll(html, CategoryPatterns[p])[m])])])

\* lines 361-369: the first occurrence of each category, compared in lower case
UniqueCats(cats) ==
    SelectSeq([i \in DOMAIN cats |->
                 IF \E j \in 1..(i - 1) : Lower(cats[j]) = Lower(cats[i]) THEN << >> ELSE cats[i]],
              LAMBDA c : c # << >>)

GetCategories(html) ==
    IF AllCategories(html) = << >> THEN Nothing
    ELSE Some(JList([i \in DOMAIN UniqueCats(AllCategories(html)) |->
                       JStr(UniqueCats(AllCategories(html))[i])]))

\* ---- get_thumbnail, lines 373-392
ThumbnailPatterns ==
    <<"og_image", "img_alt_photo", "img_aria_googleusercontent", "img_lh_googleusercontent",
      "jsaction_hero_image", "img_kSOdnb">>

\* line 389: each extension and the host name is one token of a text
ImageMarks == {".jpg", ".jpeg", ".png", ".webp", "googleusercontent"}

RECURSIVE ThumbnailFrom(_, _)
ThumbnailFrom(html, patterns) ==
    IF patterns = << >> THEN Nothing
    ELSE LET thumbnail == ExtractFromHtml(html, Head(patterns)) IN
         IF /\ TruthyStr(thumbnail)
            /\ HasProtocol(thumbnail.v)
            /\ \E i \in DOMAIN thumbnail.v : Lower(thumbnail.v)[i] \in ImageMarks
         THEN Some(JStr(thumbnail.v))
         ELSE ThumbnailFrom(html, Tail(patterns))

GetThumbnail(html) == ThumbnailFrom(html, ThumbnailPatterns)

\* ---- get_hours, lines 394-419
MinHoursLen == 5

RECURSIVE HoursTextFrom(_, _)
HoursTextFrom(html, patterns) ==
    IF patterns = << >> THEN Nothing
    ELSE LET hours == ExtractFromHtml(html, Head(patterns)) IN
         IF /\ TruthyStr(hours)
            /\ CleanHtmlText(hours.v).some
            /\ Len(CleanHtmlText(hours.v).v) > MinHoursLen
         THEN Some(JStr(CleanHtmlText(hours.v).v))
         ELSE HoursTextFrom(html, Tail(patterns))

GetHours(html) ==
    IF FindAll(html, "day_hours") # << >>
    THEN Some(JList([i \in DOMAIN FindAll(html, "day_hours") |->
                       JStr(FindAll(html, "day_hours")[i])]))
    ELSE HoursTextFrom(html, <<"aria_hours", "show_open_hours">>)

\* ---- extract_place_data, lines 421-461
RecordKeys ==
    {"name", "place_id", "coordinates", "address", "rating", "reviews_count", "reviews_url",
     "categories", "website", "phone", "thumbnail", "hours"}

\* lines 437-451: the value computed for one key, None when there is none
FieldOf(html, metadata, key) ==
    CASE key = "name" -> GetMainName(html, metadata)
      [] key = "place_id" -> GetPlaceId(html, metadata)
      [] key = "coordinates" -> GetGpsCoordinates(html, metadata)
      [] key = "address" -> GetCompleteAddress(html)
      [] key = "rating" -> GetRating(html)
      [] key = "reviews_count" -> GetReviewsCount(html)
      [] key = "reviews_url" -> GetReviewsUrl(html, metadata)
      [] key = "categories" -> GetCategories(html)
      [] key = "website" -> GetWebsite(html)
      [] key = "phone" -> [some |-> GetPhoneNumber(html).some, v |-> GetPhoneNumber(html).v]
      [] key = "thumbnail" -> GetThumbnail(html)
      [] key = "hours" -> GetHours(html)

\* line 454: the keys whose value is not None
PresentKeys(html, metadata) == {k \in RecordKeys : FieldOf(html, metadata, k).some}

\* The stages of one call: nothing done, metadata parsed, returned or raised
ExtractPending == [ret |-> "pending", meta |-> NoMeta, data |-> << >>]
ExtractStage(r, m, d) == [ret |-> r, meta |-> m, data |-> d]

\* lines 427-434: the metadata is extracted and parsed
ParseMetadata ==
    /\ pc = "extract_place_data"
    /\ place_details.ret = "pending"
    /\ place_details' =
          IF MetadataOf(html_content).raised
          THEN ExtractStage("metadata_raised", NoMeta, << >>)
          ELSE ExtractStage("metadata", MetadataOf(html_content), << >>)
    /\ UNCHANGED <<html_content, detail_page, place_data, request, response>>
    /\ UNCHANGED <<mainVars, max_places, max_workers, consentVars, scrollVars, linkVars>>
    /\ UNCHANGED <<poolVars, results>>

\* lines 437-461: the fields are computed, None values are dropped and the record is
\* returned, or None when it has no name; the TypeError of get_phone_number escapes
ExtractFields ==
    /\ pc = "extract_place_data"
    /\ place_details.ret = "metadata"
    /\ place_details' =
          LET html == html_content
              metadata == place_details.meta
              present == PresentKeys(html, metadata)
          IN  IF GetPhoneNumber(html).raised
              THEN ExtractStage("raised", metadata, << >>)
              ELSE IF "name" \notin present \/ ~Truthy(FieldOf(html, metadata, "name").v)
                   THEN ExtractStage("None", metadata, << >>)
                   ELSE ExtractStage("record", metadata,
                                     [k \in present |-> FieldOf(html, metadata, k).v])
    /\ UNCHANGED <<html_content, detail_page, place_data, request, response>>
    /\ UNCHANGED <<mainVars, max_places, max_workers, consentVars, scrollVars, linkVars>>
    /\ UNCHANGED <<poolVars, results>>

ExtractNext == ParseMetadata \/ ExtractFields

\* ---- the payloads one call is tried on
NullTok == <<"null">>

RECURSIVE JoinComma(_)
JoinComma(parts) ==
    IF parts = << >> THEN << >>
    ELSE IF Len(parts) = 1 THEN parts[1]
    ELSE parts[1] \o <<",">> \o JoinComma(Tail(parts))

\* The text of a JSON array whose items have the given texts
Arr(parts) == <<"[">> \o JoinComma(parts) \o <<"]">>

Nulls(k) == [i \in 1..k |-> NullTok]

\* The text of a data blob of the given length
BlobText(len, cid, name, coords, pid) ==
    Arr([i \in 1..len |->
           CASE i = 1 -> cid [] i = 2 -> name [] i = 8 -> coords [] i = 19 -> pid
             [] OTHER -> NullTok])

\* The text of a payload holding blob at [5][3][2]
Wrap(blob) == Arr(Nulls(5) \o <<Arr(Nulls(3) \o <<Arr(Nulls(2) \o <<blob>>)>>)>>)

GoodCoords == Arr(<<NullTok, NullTok, <<"48">>, <<"2">>>>)
GoodBlob == BlobText(19, <<"str_cid">>, <<"str_name">>, GoodCoords, <<"str_place_id">>)
GoodPayload == Wrap(GoodBlob)

ScalarTexts == {NullTok, <<"str_empty">>, <<"0">>, <<"5">>}
CoordTexts ==
    {GoodCoords, NullTok, <<"5">>, Arr(<<NullTok, NullTok>>),
     Arr(<<NullTok, NullTok, NullTok, <<"2">>>>), Arr(<<NullTok, NullTok, <<"48">>, NullTok>>)}

\* Well-formed payloads with every kind of value in the projected fields
FieldPayloads ==
    {Wrap(BlobText(19, c, n, GoodCoords, p)) :
        c \in ScalarTexts \cup {<<"str_cid">>}, n \in ScalarTexts \cup {<<"str_name">>},
        p \in ScalarTexts \cup {<<"str_place_id">>}}
    \cup {Wrap(BlobText(19, <<"str_cid">>, <<"str_name">>, co, <<"str_place_id">>)) :
            co \in CoordTexts}

\* Payloads whose arrays are too short or of the wrong type at some level
ShapePayloads ==
    {Wrap(BlobText(len, <<"str_cid">>, <<"str_name">>, GoodCoords, <<"str_place_id">>)) :
        len \in 17..20}
    \cup {Wrap(x) : x \in {NullTok, <<"5">>, <<"{", "}">>, <<"[", "]">>, <<"str_name">>}}
    \cup {Arr(Nulls(k)) : k \in 0..7}
    \cup {Arr(Nulls(5) \o <<Arr(Nulls(k))>>) : k \in 0..5}
    \cup {Arr(Nulls(5) \o <<Arr(Nulls(3) \o <<Arr(Nulls(k))>>)>>) : k \in 0..4}
    \cup {Arr(Nulls(5) \o <<x>>) : x \in {<<"5">>, <<"str_name">>, <<"{", "}">>}}
    \cup {Arr(Nulls(5) \o <<Arr(Nulls(3) \o <<x>>)>>) : x \in {<<"5">>, <<"{", "}">>}}
    \cup {<<"{", "}">>, <<" ">> \o GoodPayload \o <<" ">>}

\* Captures that are not JSON: truncated, with stray tokens, or not starting like JSON
BrokenPayloads ==
    {SubSeq(GoodPayload, 1, k) : k \in 0..(Len(GoodPayload) - 1)}
    \cup {GoodPayload \o <<"]">>, <<"[", ",", "]">>, <<"[", "x", "]">>, <<"{">>,
          <<"5">>, <<"x">>, <<" ">>, <<"[", "null", "null", "]">>}

Payloads ==
    {Nothing} \cup {Some(text) : text \in FieldPayloads \cup ShapePayloads \cup BrokenPayloads}

\* ---- the regions one call is tried on, one family for each field
NameFrags ==
    {Frag("title", <<"D", "o", "m", " ", "-", " ", "Google Maps">>),
     Frag("title", <<" ", " ", " ", "-", " ", "Google Maps">>),
     Frag("title", <<"D", "o", "m">>),
     Frag("title", <<"A", " ", "&amp;", " ", "B", " ", " ", "-", "Google Maps">>),
     Frag("h1_span", <<"S", "p", "a", "n", " ", " ", "N", "a", "m", "e">>),
     Frag("h1_DUwDvf", <<"O", "l", "d">>)}

IdFrags ==
    {Frag("place_id", <<"ChIJ", "d", "o", "m">>),
     Frag("cid", <<"0x", "9", ":", "0x", "8">>),
     Frag("latitude", <<"4", "8", ".", "8", "5">>),
     Frag("longitude", <<"-", "2", ".", "3", "5">>)}

RatingFrags ==
    {Frag("aria_stars", <<"4", ".", "6">>),
     Frag("aria_stars", <<"0", ".", "9">>),
     Frag("aria_stars", <<"5", ".", "1">>),
     Frag("aria_stars", <<"4", ".", ".", "6">>),
     Frag("aria_stars", <<"5", ".">>),
     Frag("aria_stars", <<"1", ".", "0">>),
     Frag("out_of_5", <<"4", ".", "7">>),
     Frag("out_of_5", <<"0", ".", "9">>),
     Frag("out_of_5", <<"9", ".", "9">>)}

ReviewFrags ==
    {Frag("aria_stars_reviews", <<"1", ",", "2", "3", "4">>),
     Frag("aria_stars_reviews", <<"0">>),
     Frag("reviews_text", <<"1", "2", ",", "3", "4", "5">>),
     Frag("reviews_text", <<"0">>),
     Frag("reviews_text", <<"1", "2", "0", "0", "0", "0", "0", "0">>),
     Frag("reviews_text", <<"1", "0", ",", "0", "0", "0", ",", "0", "0", "0">>),
     Frag("reviews_text", <<"9", ",", "9", "9", "9", ",", "9", "9", "9">>),
     Frag("reviews_text", <<",">>),
     Frag("google_reviews", <<"7">>)}

PhoneFrags ==
    {Frag("aria_phone", <<" ", "+", "1", " ", "(", "4", "1", "5", ")", " ", "5", "5", "5", "-", "0", "1", "3", "2">>),
     Frag("aria_phone", <<" ", "5", "5", "5", "-", "0", "1", "3", "2">>),
     Frag("aria_phone", <<" ">>),
     Frag("aria_phone", <<"<", "b", ">", "<", "/", "b", ">">>),
     Frag("tel_href", <<"+", "1", "4", "1", "5", "5", "5", "5", "0", "1", "2", "3">>),
     Frag("tel_href", <<"5", "5", "5">>),
     Frag("item_phone_aria", <<"C", "a", "l", "l", " ", "+", "1", " ", "4", "1", "5", " ", "5", "5", "5", " ", "0", "1", "3", "2">>),
     Frag("call_tooltip_tel", <<"+", "1", "4", "1", "5", "5", "5", "5", "0", "1", "9", "9">>),
     Frag("button_aria_phone", <<"(", "4", "1", "5", ")", " ", "5", "5", "5", "-", "0", "1", "3", "2">>)}

AddressFrags ==
    {Frag("aria_address", <<" ", "1", "2", " ", "L", "o", "n", "g", " ", "S", "t", "r", "e", "e", "t", ",", " ", "P", "a", "r", "i", "s">>),
     Frag("aria_address", <<" ", "s", "h", "o", "r", "t", " ", "1">>),
     Frag("aria_address", <<" ", " ">>),
     Frag("aria_address", <<" ", "L", "o", "n", "g", " ", "S", "t", "r", "e", "e", "t", " ", "W", "i", "t", "h", "o", "u", "t", " ", "N", "u", "m", "b", "e", "r">>),
     Frag("item_address_aria", <<"5", " ", "R", "u", "e", " ", "H", "a", "u", "t", "e", ",", " ", "L", "y", "o", "n">>),
     Frag("item_address_button", <<"7", " ", "M", "a", "i", "n", " ", "&amp;", " ", " ", "S", "i", "d", "e", " ", "R", "o", "a", "d">>),
     Frag("formatted_address", <<"9", " ", "O", "l", "d", " ", "&amp;", " ", "N", "e", "w", " ", "L", "a", "n", "e">>),
     Frag("button_aria_numbered", <<"1", " ", "B", "a", "k", "e", "r", " ", "S", "t", "r", "e", "e", "t", " ", "L", "o", "n", "d", "o", "n">>)}

WebsiteFrags ==
    {Frag("authority_href", <<"https://", "e", ".", "c", "o">>),
     Frag("authority_href", <<"n", "o", "n", "e">>),
     Frag("aria_website", <<" ", "e", ".", "c", "o">>),
     Frag("aria_website", <<" ", " ">>),
     Frag("a_aria_website_href", <<"http://", "a", ".", "c", "o">>),
     Frag("tooltip_website_href", <<"h", "t", "t", "p", "x", ".", "o", "r", "g">>)}

CategoryFrags ==
    {Frag("aria_category", <<" ", "C", "a", "f", "e", ",", " ", "B", "a", "r", "middot", " ", "c", "a", "f", "e">>),
     Frag("aria_category", <<" ", "M", "e", "n", "u">>),
     Frag("item_category_aria", <<"O", "p", "e", "n", " ", "n", "o", "w">>),
     Frag("item_category_aria", <<"B", "a", "k", "e", "r", "y">>),
     Frag("jsaction_category", <<"T", "e", "a", " ", "R", "o", "o", "m", ",", " ", "S", "h", "a", "r", "e", ",", " ", "a", "b">>)}

ThumbnailFrags ==
    {Frag("og_image", <<"https://", "x", "/", "a", ".jpg">>),
     Frag("og_image", <<"x", "/", "a", ".jpg">>),
     Frag("img_alt_photo", <<"https://", "x", "/", "a", ".", "g", "i", "f">>),
     Frag("img_kSOdnb", <<"https://", "l", "h", "3", ".", "googleusercontent", "/", "a">>),
     Frag("img_lh_googleusercontent", <<"https://", "x", "/", "B", ".png">>)}

HoursFrags ==
    {Frag("day_hours", <<"M", "o", "n", "d", "a", "y", ",", " ", "9", " ", "A", "M", " ", "t", "o", " ", "5", " ", "P", "M">>),
     Frag("day_hours", <<"T", "u", "e", "s", "d", "a", "y", ",", " ", "9", " ", "A", "M", " ", "t", "o", " ", "5", " ", "P", "M">>),
     Frag("aria_hours", <<" ", "O", "p", "e", "n", " ", "2", "4", " ", "h", "o", "u", "r", "s">>),
     Frag("aria_hours", <<" ", "9", "-", "5">>),
     Frag("show_open_hours", <<"x">>)}

TitleFrag == Frag("title", <<"D", "o", "m", " ", "-", " ", "Google Maps">>)

FragFamilies ==
    {NameFrags, IdFrags, RatingFrags, ReviewFrags, PhoneFrags, AddressFrags, WebsiteFrags,
     CategoryFrags, ThumbnailFrags, HoursFrags}

\* The most regions of one family in a markup
MaxFrags == 2

\* Markups holding regions of one family, after a title or without one
Doms ==
    UNION {{pre \o rest : pre \in {<< >>, <<TitleFrag>>}, rest \in SeqsUpTo(family, MaxFrags)} :
             family \in FragFamilies}

\* The markups: every payload with a few DOMs, and every DOM with or without a payload
HtmlInputs ==
    [payload : Payloads, dom : {<< >>, <<TitleFrag>>, <<TitleFrag, Frag("place_id", <<"ChIJ", "d", "o", "m">>),
                                     Frag("cid", <<"0x", "9", ":", "0x", "8">>),
                                     Frag("latitude", <<"4", "8", ".", "8", "5">>),
                                     Frag("longitude", <<"-", "2", ".", "3", "5">>)>>}]
    \cup [payload : {Nothing, Some(GoodPayload)}, dom : Doms]

\* One call of extract_place_data(html_content)
InitExtract ==
    /\ EntryPoint("extract_place_data")
    /\ html_content \in HtmlInputs
    /\ place_details = ExtractPending
    /\ detail_page = Idle
    /\ place_data = Idle
    /\ request = Idle
    /\ response = Idle

SpecExtract == InitExtract /\ [][ExtractNext]_vars

\* One run of scrape_google_maps in which every awaited call eventually returns or
\* raises (each carries a timeout) and the event loop keeps running ready tasks
FairSpec == Init /\ [][Next]_vars /\ WF_vars(Next)

\* ------------------------------------------------------------ properties
PoolReturned == pc = "close_page"

RecordWorkers == {w \in Workers : wresult[w].kind = "record"}

\* C1: in every reachable state of every interleaving of the workers, the number of
\* detail pages opened and not yet closed is at most max_workers.
C1_OpenPagesWithinLimit == Cardinality(open_pages) <= max_workers

\* C1 witness: the limit is reached while another worker still waits for a slot
C1_Witness ==
    /\ pc = "pool"
    /\ Cardinality(open_pages) = max_workers
    /\ \E w \in Workers : wpc[w] = "start"

C3_FailureIsolated ==
    PoolReturned =>
        /\ \A w \in Workers : wpc[w] = "done" /\ wresult[w] # Unset
        /\ Workers = 1..Len(Tasks)
        /\ \A i \in DOMAIN results : results[i].kind = "record"
        /\ Len(results) = Cardinality(Workers \ {w \in Workers :
                                wresult[w] = NoneVal \/ wresult[w] = ExcVal})
        /\ exc_at = "none"

\* C3 witness: one unit failed with an exception and a later sibling still succeeded
C3_Witness ==
    /\ PoolReturned
    /\ \E w, v \in Workers : w < v /\ wresult[w] = ExcVal /\ wresult[v].kind = "record"
    /\ Len(results) >= 1

\* C4 as claimed: at most max_places links are visited and the pool returns exactly
\* one result per attempted link.
C4_OneResultPerLink ==
    PoolReturned => Len(Tasks) <= max_places /\ Len(results) = Len(Tasks)

\* C4 as amended: at most max_places links are attempted; gather holds exactly one
\* result per attempted link (a record, None or an exception); the pool returns the
\* records among them in task order, so at most one per attempted link and none for
\* a failed one.
C4_OneGatheredPerLink ==
    /\ Cardinality(open_pages \cup navigated) <= max_places
    /\ Cardinality(Workers) <= max_places
    /\ PoolReturned =>
          /\ Len(gathered) = Len(Tasks)
          /\ \A w \in Workers : gathered[w] \in {NoneVal, ExcVal, PlaceData(Tasks[w])}
          /\ Len(results) <= Len(Tasks)
          /\ Len(results) = Cardinality({w \in Workers : gathered[w] = PlaceData(Tasks[w])})

\* C4 witness: more links than max_places were given and one attempted link failed
C4_Witness ==
    /\ PoolReturned
    /\ Len(place_urls) > max_places
    /\ Len(gathered) = max_places
    /\ Len(results) < Len(gathered)

\* C5 as claimed: a URL appears once in the links handed to the pool, so no URL is
\* visited twice in one run.
C5_NoDuplicateLinks ==
    /\ \A i, j \in DOMAIN place_urls : place_urls[i] = place_urls[j] => i = j
    /\ \A w, v \in navigated : Tasks[w] = Tasks[v] => w = v

\* C6: discovery produces at most max_places links, and exactly max_places when the
\* final query found at least max_places anchors.
C6_LinksBoundedByTarget ==
    /\ Len(place_urls) <= max_places
    /\ Len(place_links) >= max_places => Len(place_urls) = max_places

\* C6 witness: the final query found more anchors than asked for
C6_Witness ==
    /\ pc = "pool_call"
    /\ Len(place_links) > max_places
    /\ Len(place_urls) = max_places

\* C7 as claimed: once StagnationLimit consecutive scrolls changed neither the links
\* nor the extent, no further scroll is issued.
C7_StopsOnStagnation ==
    [][no_growth_run >= StagnationLimit => scroll_attempts' <= scroll_attempts]_vars

LoopPcs == {"loop", "scroll"}

\* C8: the scroll loop is always left; at most MaxScrollAttempts scrolls are issued in
\* a run, and none once the loaded anchors have reached max_places.
C8_ScrollLoopBounded ==
    /\ [](scroll_attempts <= MaxScrollAttempts)
    /\ [][scroll_attempts' > scroll_attempts =>
            /\ places_loaded < max_places
            /\ Len(anchors) < max_places
            /\ scroll_attempts' = scroll_attempts + 1]_vars
    /\ (pc \in LoopPcs) ~> (pc \notin LoopPcs)

\* C8 witness: the ceiling ended the loop on a feed that never loaded a link
C8_Witness ==
    /\ pc = "collect"
    /\ scroll_attempts = MaxScrollAttempts
    /\ anchors = << >>

\* C9 as claimed: when the results feed never appears, no exception leaves
\* scrape_google_maps.
C9_NoFeedNoException == exc_at = "feed" => pc # "raised"

C11_NoRecordWithoutName ==
    place_data.ret = "record" =>
        /\ detail_page.has_name_element
        /\ place_data.data["name"] # << >>
        /\ place_data.data["name"] # S_NA

\* C12: every key present in an emitted record carries an extracted value, never
\* null and never a placeholder; a field whose strategies all fail is omitted.
C12_NoPlaceholderValues ==
    place_data.ret = "record" =>
        \A k \in DOMAIN place_data.data :
            /\ place_data.data[k] # S_NA
            /\ place_data.data[k] # PyNone
            /\ place_data.data[k] # << >>

\* C15: a phone value that is returned consists of digits only and has at least
\* 10 digits; a candidate with fewer digits is rejected.
C15_PhoneDigitsOnly ==
    (place_data.ret = "record" /\ "phone" \in DOMAIN place_data.data
        /\ place_data.data["phone"] # S_NA) =>
        /\ \A i \in 1..Len(place_data.data["phone"]) : IsDigit(place_data.data["phone"][i])
        /\ Len(place_data.data["phone"]) >= MinPhoneDigits


\* ------------------------------------------------------------ consent
\* C17: consent handling is non-fatal: whether the prompt is absent, the wait times
\* out or the interaction with it fails, the run goes on to the results container;
\* it never ends in the consent step.
C17_ConsentNonFatal == exc_at # "consent"


\* ------------------------------------------------------------ POST /scrape
\* C20: a request whose query is empty or blank, or whose max_places is outside
\* 1..100, is answered with a 400 response, and scrape_google_maps is not invoked.
C20_InvalidRequestGets400 ==
    (pc = "responded"
        /\ (BlankQuery(request.query) \/ ~request.max_places.some
                \/ BadMaxPlaces(request.max_places.v))) =>
        response.status = 400 /\ ~response.scraped


\* ------------------------------------------------------------ extractor.py
\* The rating carried by a record, as the parsed decimal it was built from
RatingOf(data) == [num |-> data["rating"].n, scale |-> data["rating"].items[1].n]

\* C13: a rating that is returned lies in [1.0, 5.0], whichever strategy matched.
C13_RatingInRange ==
    (place_details.ret = "record" /\ "rating" \in DOMAIN place_details.data) =>
        RatingInRange(RatingOf(place_details.data))

\* What the three review patterns capture, in their order
ReviewCaptures(html) == [i \in DOMAIN ReviewPatterns |-> ExtractFromHtml(html, ReviewPatterns[i])]

\* A capture that parses, without its separators, to n with 0 <= n < 10,000,000
CountAcceptable(capture) ==
    /\ capture.some
    /\ CountParses(capture.v)
    /\ 0 <= CountOf(capture.v) /\ CountOf(capture.v) < MaxReviews

\* C14: the review count is the first captured count n with 0 <= n < 10,000,000,
\* separators stripped; a count of 0 is accepted, one of 10,000,000 or more is not.
C14_ReviewCountRange ==
    place_details.ret = "record" =>
        LET caps == ReviewCaptures(html_content)
            data == place_details.data
        IN  /\ \A i \in DOMAIN caps :
                  (CountAcceptable(caps[i]) /\ \A j \in 1..(i - 1) : ~CountAcceptable(caps[j]))
                      => /\ "reviews_count" \in DOMAIN data
                         /\ data["reviews_count"].n = CountOf(caps[i].v)
            /\ (\A i \in DOMAIN caps : ~CountAcceptable(caps[i]))
                  => "reviews_count" \notin DOMAIN data

\* C16: metadata parsing never raises: whatever the payload, it gives a mapping or
\* None, and without a mapping the extraction goes on from the DOM alone.
C16_MetadataNeverRaises ==
    /\ place_details.ret # "metadata_raised"
    /\ (place_details.ret = "metadata" /\ place_details.meta.some) =>
           (html_content.payload.some /\ JsonLoads(html_content.payload.v).t = "list")
    /\ (place_details.ret \in {"record", "None"} /\ ~place_details.meta.some) =>
           (place_details.ret = "record" <=> NameFromDom(html_content, NamePatterns).some)

\* A payload that is not JSON was met and a record was still returned
C16_Witness ==
    /\ place_details.ret = "record"
    /\ html_content.payload.some
    /\ html_content.payload.v # << >>
    /\ JsonLoads(html_content.payload.v).t = "error"

\* The first capture, in the order of the patterns, that passes the validator
FirstPassing(html, patterns, Passes(_)) ==
    LET caps == [i \in DOMAIN patterns |-> ExtractFromHtml(html, patterns[i])]
        hits == {i \in DOMAIN patterns : caps[i].some /\ Passes(caps[i].v)}
    IN  IF hits = {} THEN Nothing
        ELSE Some(caps[CHOOSE i \in hits : \A j \in hits : i <= j].v)

PhonePasses(capture) == Len(Keep(capture, DigitChars)) >= MinPhoneDigits
AddressPasses(capture) == AddressValid(CleanHtmlText(capture))
WebsitePasses(capture) == WebsiteValid(CleanHtmlText(capture))
CountPasses(capture) == CountParses(capture) /\ CountInRange(CountOf(capture))

\* A field is present exactly when some strategy passes
PresentIff(data, key, first) == (key \in DOMAIN data) <=> first.some

\* C18: for address, website, phone and review count the strategies are tried in
\* order and the first match that passes the validator gives the value; a match
\* that fails the validator does not stop the search.
C18_FirstPassingStrategy ==
    /\ place_details.ret # "raised"
    /\ place_details.ret = "record" =>
        LET data == place_details.data
            phone == FirstPassing(html_content, PhonePatterns, PhonePasses)
            address == FirstPassing(html_content, AddressPatterns, AddressPasses)
            website == FirstPassing(html_content, WebsitePatterns, WebsitePasses)
            count == FirstPassing(html_content, ReviewPatterns, CountPasses)
        IN  /\ PresentIff(data, "phone", phone)
            /\ phone.some => data["phone"].s = Keep(phone.v, DigitChars)
            /\ PresentIff(data, "address", address)
            /\ address.some => data["address"].s = CleanHtmlText(address.v).v
            /\ PresentIff(data, "website", website)
            /\ website.some =>
                  data["website"].s \in {CleanHtmlText(website.v).v,
                                        <<"https://">> \o CleanHtmlText(website.v).v}
            /\ PresentIff(data, "reviews_count", count)
            /\ count.some => data["reviews_count"].n = CountOf(count.v)

\* What the metadata gives for name, place identifier and coordinates is what the
\* record carries
MetadataFieldsWin(meta, data) ==
    /\ Truthy(meta.name) => data["name"] = meta.name
    /\ Truthy(meta.place_id) =>
          "place_id" \in DOMAIN data /\ data["place_id"] = meta.place_id
    /\ meta.coordinates.some =>
          /\ "coordinates" \in DOMAIN data
          /\ data["coordinates"] = JCoords(meta.coordinates.lat, meta.coordinates.lon)

\* C19: metadata wins field-level ties: for name, place identifier, internal id (cid)
\* and coordinates a non-empty metadata value is the value the record carries.
C19_MetadataWins ==
    (place_details.ret = "record" /\ place_details.meta.some) =>
        /\ MetadataFieldsWin(place_details.meta, place_details.data)
        /\ Truthy(place_details.meta.cid) =>
              /\ "cid" \in DOMAIN place_details.data
              /\ place_details.data["cid"] = place_details.meta.cid

\* What the record does carry: the metadata's name, place identifier and coordinates
\* whatever the DOM matches; no cid key, a non-empty metadata cid being carried only
\* inside reviews_url; the DOM's name and place identifier when the metadata lacks them.
MetadataPrecedence ==
    place_details.ret = "record" =>
        LET meta == place_details.meta
            data == place_details.data
        IN  /\ "cid" \notin DOMAIN data
            /\ meta.some =>
                  /\ MetadataFieldsWin(meta, data)
                  /\ Truthy(meta.cid) =>
                        /\ "reviews_url" \in DOMAIN data
                        /\ data["reviews_url"].s = <<ReviewsUrlPrefix>> \o FormatValue(meta.cid)
            /\ ~(meta.some /\ Truthy(meta.name)) =>
                  /\ NameFromDom(html_content, NamePatterns).some
                  /\ data["name"].s = NameFromDom(html_content, NamePatterns).v
            /\ ~(meta.some /\ Truthy(meta.place_id)) =>
                  /\ "place_id" \in DOMAIN data <=> ExtractFromHtml(html_content, "place_id").some
                  /\ "place_id" \in DOMAIN data =>
                        data["place_id"].s = ExtractFromHtml(html_content, "place_id").v

\* The metadata and the DOM both hold a name, a place identifier and a cid, different
\* ones, and a record was returned
MetadataAndDomDisagree ==
    /\ place_details.ret = "record"
    /\ place_details.meta.some
    /\ Truthy(place_details.meta.name)
    /\ Truthy(place_details.meta.place_id)
    /\ Truthy(place_details.meta.cid)
    /\ NameFromDom(html_content, NamePatterns).some
    /\ JStr(NameFromDom(html_content, NamePatterns).v) # place_details.meta.name
    /\ ExtractFromHtml(html_content, "place_id").some
    /\ ExtractFromHtml(html_content, "cid").some

\* ------------------------------------------------------------ scrape_google_maps: browser
\* C21 as claimed: on every exit path of scrape_google_maps after the browser has been
\* launched, browser.close() has run exactly once when the function returns or
\* re-raises: the browser is not left open and it is not closed twice.
C21_BrowserClosedExactlyOnce ==
    (pc \in {"done", "raised"} /\ browser # "none") =>
        (browser = "closed" /\ browser_closes = 1)

\* The paths the claim lists: normal completion and an exception raised before
\* line 349, with a browser.close() that returns
ClosedOnceOnListedPaths ==
    (pc \in {"done", "raised"} /\ browser = "closed" /\ exc_at # "close_browser") =>
        browser_closes = 1

\* A second call of browser.close() happens only after the call of line 349 raised
SecondCloseOnlyAfterCloseRaised ==
    browser_closes <= 2 /\ (browser_closes = 2 => exc_at = "close_browser")

====
